---- MODULE Spec2Model ----
(***************************************************************************)
(* LLM Council backend (llm-council/backend): the dynamic configuration    *)
(* store (config_manager.py), the three-stage council run (council.py,     *)
(* ollama_adapter.py) and the OpenAI-compatible chat gateway (main.py,     *)
(* db_storage.py, conversation_tracker.py).                                *)
(*                                                                         *)
(* The backend runs on one asyncio event loop: a coroutine runs without    *)
(* interruption from one suspension point (an await that really blocks:    *)
(* an HTTP call, a database call, a wait on a held asyncio.Lock) to the    *)
(* next.  Every action below is one such uninterrupted stretch of a        *)
(* request handler.                                                        *)
(***************************************************************************)
EXTENDS Integers, Sequences, FiniteSets, TLC

(***************************************************************************)
(* Values                                                                  *)
(***************************************************************************)
\* Python's Optional[x]: None is the empty tuple, a value v is <<v>>.
Nothing == <<>>
Some(v) == <<v>>

\* Model ids are strings; they are kept as tuples of characters because the
\* availability check of validate_ollama_models looks inside them.
Q7 == <<"q", ":", "7">>
Q3 == <<"q", ":", "3">>
G == <<"g">>
Z == <<"z">>

Range(s) == {s[i] : i \in 1..Len(s)}

\* A configuration: the two keys the code compares and updates.  The keys
\* backend_mode and ollama_base_url are copied along unchanged by every
\* operation and are left out.
Cfg(cm, ch) == [council_models |-> cm, chairman_model |-> ch]

(***************************************************************************)
(* Bounds                                                                  *)
(***************************************************************************)
NTasks == 2
MaxRequests == 2
MaxRuns == 1
MaxChats == 1
MaxTextLen == 4
MaxRankings == 2
MaxMessages == 2
MaxContentLen == 101
MaxCalls == 3
MaxLines == 4

Tasks == 1..NTasks

\* Environments the process can be started in (COUNCIL_MODELS, CHAIRMAN_MODEL).
EnvConfigs == {Cfg(<<Q7, G>>, Some(G))}

\* Contents of the overlay file CONFIG_FILE before the first load.
FileContents ==
    {[kind |-> "nofile", cfg |-> Cfg(<<>>, Nothing)],
     [kind |-> "corrupt", cfg |-> Cfg(<<>>, Nothing)],
     [kind |-> "json", cfg |-> Cfg(<<Q7, G>>, Some(G))],
     [kind |-> "json", cfg |-> Cfg(<<G, Q7>>, Some(G))],
     [kind |-> "json", cfg |-> Cfg(<<Q7, G>>, Some(Q7))],
     [kind |-> "json", cfg |-> Cfg(<<Z>>, Some(G))]}

\* Outcomes of writing the overlay file: written; not opened (IOError before
\* the file is touched); opened and truncated, then the write failed.
WriteOutcomes == {"ok", "noopen", "partial"}

\* Bodies of PUT /api/config and arguments of update_config.
UpdateRequests ==
    {[council_models |-> Some(<<G, Q3>>), chairman_model |-> Some(Z)],
     [council_models |-> Some(<<Z>>), chairman_model |-> Nothing],
     [council_models |-> Nothing, chairman_model |-> Some(Q7)]}

\* Answers of the backend to GET /api/tags: the call fails, or it lists the
\* installed models.
TagsResponses ==
    {[ok |-> FALSE, available |-> {}],
     [ok |-> TRUE, available |-> {Q7, G}]}

BACKEND_MODE == "ollama"

VARIABLES
    env,         \* the environment's configuration (fixed for the process)
    file,        \* the overlay file
    cache,       \* _config_cache: Nothing or Some(config)
    lockHolder,  \* _config_lock: 0 when unlocked, else the task that holds it
    waiters,     \* _config_lock: tasks waiting in acquire(), in FIFO order
    pc,          \* where each task's coroutine is suspended
    op,          \* the request each task is serving
    hist,        \* per task, the answers it has received, oldest first
    lastLoad,    \* history: what the most recent load of the cache did
    committed,   \* history: every configuration the cache has held
    run,         \* per task, the council run it is executing or has executed
    store,       \* the chat table: per conversation id, Nothing or the row
    chat,        \* per task, the chat completion it is serving or has served
    fn,          \* a function applied on its own: its name, argument and result
    storage      \* db_storage.py under concurrent calls: table, clock, cache, calls

vars == <<env, file, cache, lockHolder, waiters, pc, op, hist, lastLoad, committed, run,
          store, chat, fn, storage>>

NoOp == [kind |-> "none", council_models |-> Nothing, chairman_model |-> Nothing, reported |-> {}]
\* A call to a model: pending, failed (query_model returned None) or replied
\* with the content of the reply.
Pending == [state |-> "pending", content |-> ""]
Failed == [state |-> "failed", content |-> ""]
Replied(c) == [state |-> "replied", content |-> c]

\* The state of run_full_council before it starts.
NoRun == [snapshot |-> Nothing, roster1 |-> <<>>, calls1 |-> <<>>, stage1 |-> <<>>,
          roster2 |-> <<>>, calls2 |-> <<>>, stage2 |-> <<>>, stage2done |-> FALSE,
          chairman |-> Nothing, chairCall |-> "none", ret |-> Nothing,
          responses1 |-> <<>>, responses2 |-> <<>>]

\* A stored or requested message.  footer is the model name that the gateway
\* appends to an answer (main.py lines 690-704), None for other messages.
Msg(role, content) == [role |-> role, content |-> content, footer |-> Nothing]

\* Bodies of POST /v1/chat/completions: the messages and the stream flag.
ChatMessages ==
    {<<Msg("user", "q")>>,
     <<Msg("user", "")>>,
     <<Msg("system", "s")>>,
     <<Msg("user", "q"), Msg("assistant", "a"), Msg("user", "r")>>}

ChatRequests == [messages : ChatMessages, stream : BOOLEAN]

\* conversation_tracker.py lines 25-30, main.py lines 546-551: the content of
\* the first message whose role is "user", or None.
RECURSIVE FirstUserMessage(_)
FirstUserMessage(messages) ==
    IF messages = <<>> THEN Nothing
    ELSE IF Head(messages).role = "user" THEN Some(Head(messages).content)
    ELSE FirstUserMessage(Tail(messages))

\* Python truth value of an Optional string.
TruthyStr(o) == o # Nothing /\ o[1] # ""

\* generate_conversation_id: the UUID v5 of "continue:" followed by the first
\* user message, or by all the messages when that message is missing or
\* empty.  The UUID is kept as the name it is computed from.
ConversationId(messages) ==
    LET f == FirstUserMessage(messages) IN
    IF TruthyStr(f)
    THEN [by |-> "first", name |-> <<Msg("user", f[1])>>]
    ELSE [by |-> "all", name |-> messages]

ConvIds == {ConversationId(m) : m \in ChatMessages}

\* main.py lines 569-585: the contents of the messages whose role is "user".
UserQueries(messages) == SelectSeq(messages, LAMBDA m : m.role = "user")

\* The state of chat_completions before it is called.
NoChat == [messages |-> <<>>, stream |-> FALSE, convId |-> ConversationId(<<>>),
           phase |-> "none", adding |-> Msg("", ""), buffer |-> <<>>,
           userAppend |-> "none", asstAppend |-> "none", asst2Append |-> "none",
           status |-> 0, code |-> "", sent |-> <<>>]

\* No function is applied on its own.
NoFn == [name |-> "none", arg |-> Nothing, ret |-> Nothing]

\* db_storage.py before any call: an empty table, the clock at 1, nothing in
\* _column_cache, no call.
NoStorage ==
    [table |-> [id \in ConvIds |-> Nothing], clock |-> 1, column_cache |-> Nothing,
     archived |-> TRUE, calls |-> <<>>]

NoLoad == [from |-> "none", fileBefore |-> [kind |-> "nofile", cfg |-> Cfg(<<>>, Nothing)],
           cacheAfter |-> Nothing, fileAfter |-> [kind |-> "nofile", cfg |-> Cfg(<<>>, Nothing)],
           write |-> "none"]

(***************************************************************************)
(* config_manager.py                                                       *)
(***************************************************************************)
\* _load_config_from_file: the parsed dict, or None when the file is missing
\* or is not valid JSON.
LoadConfigFromFile(f) == IF f.kind = "json" THEN Some(f.cfg) ELSE Nothing

\* _save_config_to_file: the file after the attempt.
SaveConfigToFile(f, cfg, w) ==
    CASE w = "ok" -> [kind |-> "json", cfg |-> cfg]
      [] w = "noopen" -> f
      [] OTHER -> [kind |-> "corrupt", cfg |-> Cfg(<<>>, Nothing)]

\* A comparison that forgets the chairman.
ConfigsMatch_CouncilOnly(fc, ec) ==
    Range(fc.council_models) = Range(ec.council_models)

\* get_config, lines 78-84: the file "matches" the environment when the two
\* council lists have the same set of members and the chairmen are equal.
ConfigsMatch(fc, ec) ==
    /\ Range(fc.council_models) = Range(ec.council_models)
    /\ fc.chairman_model = ec.chairman_model

\* get_config, the body under the lock: the values of cache, file and
\* lastLoad when it returns (it returns a copy of the cache).
GetConfigBody(w) ==
    IF cache # Nothing
    THEN [cache |-> cache, file |-> file, lastLoad |-> lastLoad]
    ELSE LET fc == LoadConfigFromFile(file) IN
         IF fc # Nothing /\ ConfigsMatch(fc[1], env)
         THEN [cache |-> fc, file |-> file,
               lastLoad |-> [from |-> "file", fileBefore |-> file, cacheAfter |-> fc,
                             fileAfter |-> file, write |-> "none"]]
         ELSE LET f2 == SaveConfigToFile(file, env, w) IN
              [cache |-> Some(env), file |-> f2,
               lastLoad |-> [from |-> "env", fileBefore |-> file, cacheAfter |-> Some(env),
                             fileAfter |-> f2, write |-> w]]

\* update_config, lines 126-130: the configuration with the request applied.
ApplyUpdate(cfg, cm, ch) ==
    [council_models |-> IF cm # Nothing THEN cm[1] ELSE cfg.council_models,
     chairman_model |-> IF ch # Nothing THEN ch ELSE cfg.chairman_model]

\* asyncio.Lock.acquire without waiting: the lock is free and nobody queues.
\* A task at the head of the queue of a free lock has been woken by release.
Acquirable(t) == lockHolder = 0 /\ (waiters = <<>> \/ Head(waiters) = t)

Dequeued == IF waiters = <<>> THEN waiters ELSE Tail(waiters)

\* An answer reaches the caller: the operation, the HTTP status and the
\* configuration in the body.
Answer(t, kind, status, cfg) ==
    hist' = [hist EXCEPT ![t] = Append(@, [kind |-> kind, status |-> status, cfg |-> cfg,
                                           unknown |-> {}])]

\* The clients send at most MaxRequests requests in all; a task serves one
\* request at a time.
RECURSIVE Answered(_)
Answered(n) == IF n = 0 THEN 0 ELSE Len(hist[n]) + Answered(n - 1)

Started == Answered(NTasks) + Cardinality({t \in Tasks : pc[t] # "idle"})

\* The tasks are interchangeable: a new request is served by the first task
\* that is free.
CanStart(t) ==
    /\ pc[t] = "idle"
    /\ \A u \in 1..(t - 1) : pc[u] # "idle"
    /\ Started < MaxRequests

\* GET /api/config, get_config() called from a handler.
GetConfig(t) ==
    /\ CanStart(t) \/ (pc[t] = "get_wait" /\ Acquirable(t))
    /\ \E w \in WriteOutcomes :
        IF Acquirable(t)
        THEN LET b == GetConfigBody(w) IN
             /\ cache' = b.cache
             /\ file' = b.file
             /\ lastLoad' = b.lastLoad
             /\ committed' = committed \cup {b.cache[1]}
             /\ waiters' = Dequeued
             /\ lockHolder' = 0
             /\ pc' = [pc EXCEPT ![t] = "idle"]
             /\ Answer(t, "get", 200, b.cache)
        ELSE /\ waiters' = Append(waiters, t)
             /\ pc' = [pc EXCEPT ![t] = "get_wait"]
             /\ UNCHANGED <<cache, file, lastLoad, committed, lockHolder, hist>>
    /\ op' = [op EXCEPT ![t] = [NoOp EXCEPT !.kind = "get"]]
    /\ UNCHANGED <<storage, fn, env, run, store, chat>>

\* update_config from its first line to its first suspension: it takes
\* _config_lock (line 123) and calls get_config (line 124), which waits for
\* the same lock (line 69).
EnterUpdateConfig(t) ==
    IF Acquirable(t)
    THEN /\ lockHolder' = t
         /\ waiters' = Append(Dequeued, t)
         /\ pc' = [pc EXCEPT ![t] = "upd_inner_wait"]
    ELSE /\ lockHolder' = lockHolder
         /\ waiters' = Append(waiters, t)
         /\ pc' = [pc EXCEPT ![t] = "upd_outer_wait"]

\* update_config called directly, and its continuation when the lock it
\* waits for is handed to it.
UpdateConfig(t) ==
    /\ CanStart(t) \/ (pc[t] \in {"upd_outer_wait", "upd_inner_wait"} /\ Acquirable(t))
    /\ \E r \in UpdateRequests : \E w1, w2 \in WriteOutcomes :
        IF pc[t] = "upd_inner_wait"
        THEN \* lines 124-136: the inner get_config returns and releases the
             \* lock, the request is applied and saved, and the outer
             \* "async with" releases a lock that is no longer held.
             LET b == GetConfigBody(w1)
                 c == ApplyUpdate(b.cache[1], op[t].council_models, op[t].chairman_model)
             IN /\ cache' = Some(c)
                /\ file' = SaveConfigToFile(b.file, c, w2)
                /\ lastLoad' = b.lastLoad
                /\ committed' = committed \cup {b.cache[1], c}
                /\ waiters' = Dequeued
                /\ lockHolder' = 0
                /\ pc' = [pc EXCEPT ![t] = "idle"]
                /\ op' = op
                /\ Answer(t, op[t].kind, 500, Some(c))
        ELSE /\ EnterUpdateConfig(t)
             /\ op' = [op EXCEPT ![t] = IF pc[t] = "idle"
                                        THEN [kind |-> "update", council_models |-> r.council_models,
                                              chairman_model |-> r.chairman_model, reported |-> {}]
                                        ELSE @]
             /\ UNCHANGED <<cache, file, lastLoad, committed, hist>>
    /\ UNCHANGED <<storage, fn, env, run, store, chat>>

\* POST /api/config/reload, reload_config: it takes the lock, drops the cache
\* (line 147) and calls get_config (line 148), which waits for the same lock.
ReloadConfig(t) ==
    /\ CanStart(t) \/ (pc[t] \in {"rel_outer_wait", "rel_inner_wait"} /\ Acquirable(t))
    /\ \E w \in WriteOutcomes :
        IF pc[t] = "rel_inner_wait"
        THEN LET b == GetConfigBody(w) IN
             /\ cache' = b.cache
             /\ file' = b.file
             /\ lastLoad' = b.lastLoad
             /\ committed' = committed \cup {b.cache[1]}
             /\ waiters' = Dequeued
             /\ lockHolder' = 0
             /\ pc' = [pc EXCEPT ![t] = "idle"]
             /\ op' = op
             /\ Answer(t, "reload", 500, b.cache)
        ELSE IF Acquirable(t)
        THEN /\ lockHolder' = t
             /\ cache' = Nothing
             /\ waiters' = Append(Dequeued, t)
             /\ pc' = [pc EXCEPT ![t] = "rel_inner_wait"]
             /\ op' = [op EXCEPT ![t] = [NoOp EXCEPT !.kind = "reload"]]
             /\ UNCHANGED <<file, lastLoad, committed, hist>>
        ELSE /\ waiters' = Append(waiters, t)
             /\ pc' = [pc EXCEPT ![t] = "rel_outer_wait"]
             /\ op' = [op EXCEPT ![t] = [NoOp EXCEPT !.kind = "reload"]]
             /\ UNCHANGED <<cache, file, lastLoad, committed, lockHolder, hist>>
    /\ UNCHANGED <<storage, fn, env, run, store, chat>>

\* validate_ollama_models: for every requested model, whether the backend
\* has it.  A model counts as available when it is listed or when some listed
\* name starts with the part of its name before the first ":".
IsPrefix(p, s) == Len(p) <= Len(s) /\ SubSeq(s, 1, Len(p)) = p

RECURSIVE BaseName(_)
BaseName(m) == IF m = <<>> \/ Head(m) = ":" THEN <<>> ELSE <<Head(m)>> \o BaseName(Tail(m))

ValidateOllamaModels(models, mode, resp) ==
    [m \in Range(models) |->
        IF mode # "ollama" THEN TRUE
        ELSE IF ~resp.ok THEN TRUE
        ELSE m \in resp.available
             \/ \E a \in resp.available : IsPrefix(BaseName(m), a)]

Unavailable(models, mode, resp) ==
    {m \in Range(models) : ~ValidateOllamaModels(models, mode, resp)[m]}

\* Python truth value of an Optional list or string.
Truthy(o) == o # Nothing /\ o[1] # <<>>

(***************************************************************************)
(* main.py, PUT /api/config                                                *)
(***************************************************************************)
\* The handler answers 400 (lines 349-352, 357-360).  The answer is recorded
\* with the models reported unavailable and, as history, with the
\* configuration a get_config() would return at that moment.
PutReject(t, unknown) ==
    /\ hist' = [hist EXCEPT ![t] = Append(@, [kind |-> "put", status |-> 400,
                                              cfg |-> GetConfigBody("ok").cache,
                                              unknown |-> unknown])]
    /\ pc' = [pc EXCEPT ![t] = "idle"]
    /\ op' = [op EXCEPT ![t].reported = unknown]
    /\ UNCHANGED <<cache, file, lastLoad, committed, lockHolder, waiters>>

\* update_council_config up to its first await: the validation of the council
\* models (line 346), else of the chairman (line 355), else update_config.
PutConfig(t) ==
    /\ CanStart(t)
    /\ \E r \in UpdateRequests :
        /\ op' = [op EXCEPT ![t] = [kind |-> "put", council_models |-> r.council_models,
                                    chairman_model |-> r.chairman_model, reported |-> {}]]
        /\ IF Truthy(r.council_models)
           THEN /\ pc' = [pc EXCEPT ![t] = "put_val_council"]
                /\ UNCHANGED <<lockHolder, waiters>>
           ELSE IF Truthy(r.chairman_model)
           THEN /\ pc' = [pc EXCEPT ![t] = "put_val_chairman"]
                /\ UNCHANGED <<lockHolder, waiters>>
           ELSE EnterUpdateConfig(t)
    /\ UNCHANGED <<storage, fn, env, run, store, chat, cache, file, lastLoad, committed, hist>>

\* The backend has answered the validation of the council models
\* (lines 346-360).
PutCouncilValidated(t) ==
    /\ pc[t] = "put_val_council"
    /\ \E resp \in TagsResponses :
        LET bad == Unavailable(op[t].council_models[1], BACKEND_MODE, resp) IN
        IF bad # {}
        THEN PutReject(t, bad)
        ELSE /\ IF Truthy(op[t].chairman_model)
                THEN /\ pc' = [pc EXCEPT ![t] = "put_val_chairman"]
                     /\ UNCHANGED <<lockHolder, waiters>>
                ELSE EnterUpdateConfig(t)
             /\ UNCHANGED <<cache, file, lastLoad, committed, hist, op>>
    /\ UNCHANGED <<storage, fn, env, run, store, chat>>

\* A handler that logs the unavailable chairman and carries on.
PutChairmanValidated_NoReject(t) ==
    /\ pc[t] = "put_val_chairman"
    /\ \E resp \in TagsResponses :
        LET bad == Unavailable(op[t].chairman_model, BACKEND_MODE, resp) IN
        /\ EnterUpdateConfig(t)
        /\ op' = [op EXCEPT ![t].reported = bad]
        /\ UNCHANGED <<cache, file, lastLoad, committed, hist>>
    /\ UNCHANGED <<storage, fn, env, run, store, chat>>

\* The backend has answered the validation of the chairman (lines 355-366).
PutChairmanValidated(t) ==
    /\ pc[t] = "put_val_chairman"
    /\ \E resp \in TagsResponses :
        LET bad == Unavailable(op[t].chairman_model, BACKEND_MODE, resp) IN
        /\ IF bad # {}
           THEN PutReject(t, bad)
           ELSE /\ EnterUpdateConfig(t)
                /\ UNCHANGED <<cache, file, lastLoad, committed, hist, op>>
    /\ UNCHANGED <<storage, fn, env, run, store, chat>>

(***************************************************************************)
(* The configuration store under concurrent requests                       *)
(***************************************************************************)
InitConfig ==
    /\ fn = NoFn
    /\ storage = NoStorage
    /\ env \in EnvConfigs
    /\ file \in FileContents
    /\ cache = Nothing
    /\ lockHolder = 0
    /\ waiters = <<>>
    /\ pc = [t \in Tasks |-> "idle"]
    /\ op = [t \in Tasks |-> NoOp]
    /\ hist = [t \in Tasks |-> <<>>]
    /\ lastLoad = NoLoad
    /\ committed = {}
    /\ run = [t \in Tasks |-> NoRun]
    /\ store = [id \in ConvIds |-> Nothing]
    /\ chat = [t \in Tasks |-> NoChat]

NextConfig ==
    \E t \in Tasks :
        \/ GetConfig(t)
        \/ UpdateConfig(t)
        \/ ReloadConfig(t)
        \/ PutConfig(t)
        \/ PutCouncilValidated(t)
        \/ PutChairmanValidated(t)

ConfigSpec == InitConfig /\ [][NextConfig]_vars

\* A request that has been received is served on: the event loop runs every
\* coroutine that can run, and every backend call returns or times out.
Serve(t) ==
    /\ pc[t] # "idle"
    /\ \/ GetConfig(t)
       \/ UpdateConfig(t)
       \/ ReloadConfig(t)
       \/ PutCouncilValidated(t)
       \/ PutChairmanValidated(t)

FairConfigSpec == ConfigSpec /\ \A t \in Tasks : WF_vars(Serve(t))

InUpdate(t) == pc[t] \in {"upd_outer_wait", "upd_inner_wait"}
InReload(t) == pc[t] \in {"rel_outer_wait", "rel_inner_wait"}
Last(s) == s[Len(s)]
ChairmanIds == {Q7, G, Z}

\* What get() returns at once in the current state.
GetReturnsChairman(x) ==
    /\ lockHolder = 0
    /\ waiters = <<>>
    /\ cache # Nothing
    /\ cache[1].chairman_model = Some(x)

\* C1: once update({chairman_model: X}) has been called, the store reaches
\* the state in which an immediately following get() returns chairman X.
C1_UpdateThenGet ==
    \A t \in Tasks : \A x \in ChairmanIds :
        (InUpdate(t) /\ op[t].chairman_model = Some(x)) ~> GetReturnsChairman(x)

\* C2: a get() that runs while an update is in flight returns, and what it
\* returns is a configuration the store has held as a whole (the one before
\* the update or the one after it), never a mix.
C2_GetDuringUpdate ==
    \A u \in Tasks :
        (pc[u] = "get_wait" /\ lockHolder # 0 /\ InUpdate(lockHolder))
            ~> (/\ pc[u] = "idle"
                /\ hist[u] # <<>>
                /\ Last(hist[u]).kind = "get"
                /\ Last(hist[u]).cfg # Nothing
                /\ Last(hist[u]).cfg[1] \in committed)

\* C4: a PUT /api/config for which the validation reports an unavailable model
\* is answered 400 without having entered update_config, the step that
\* rejects it leaves the cache and the overlay file as they were, and a GET
\* that is served next returns the configuration a GET would have returned
\* before the PUT.
C4_RejectedPut ==
    /\ [](\A t \in Tasks :
            (op[t].kind = "put" /\ op[t].reported # {}) =>
                /\ pc[t] = "idle"
                /\ hist[t] # <<>>
                /\ Last(hist[t]).kind = "put"
                /\ Last(hist[t]).status = 400
                /\ Last(hist[t]).unknown = op[t].reported)
    /\ [](\A t \in Tasks : \A i \in 1..(Len(hist[t]) - 1) :
            (hist[t][i].status = 400 /\ hist[t][i + 1].kind = "get") =>
                hist[t][i + 1].cfg = hist[t][i].cfg)
    /\ [][\A t \in Tasks :
            (op'[t].kind = "put" /\ op'[t].reported # {} /\ op[t].reported = {}) =>
                (cache' = cache /\ file' = file)]_vars

C4_Witness ==
    \E t \in Tasks :
        /\ Len(hist[t]) >= 2
        /\ hist[t][1].kind = "put"
        /\ hist[t][1].status = 400
        /\ Z \in hist[t][1].unknown
        /\ hist[t][2].kind = "get"
        /\ hist[t][2].cfg = hist[t][1].cfg

\* C35: every call of update() and of reload() returns: a task that is
\* inside update_config or reload_config gets back to its caller.
C35_UpdateAndReloadReturn ==
    \A t \in Tasks : (InUpdate(t) \/ InReload(t)) ~> (pc[t] = "idle")

\* C36: whenever the cache holds a configuration, the overlay file holds the
\* same one, also after a write of the file that failed; and the
\* environment is read only by a load that finds the cache empty.
C36_FileEqualsCache ==
    /\ [](cache # Nothing => file = [kind |-> "json", cfg |-> cache[1]])
    /\ [][(lastLoad' # lastLoad /\ lastLoad'.from = "env") => cache = Nothing]_vars

C6_ReloadMatchesEnv ==
    \A t \in Tasks :
        InReload(t) ~> (/\ pc[t] = "idle"
                        /\ hist[t] # <<>>
                        /\ Last(hist[t]).kind = "reload"
                        /\ Last(hist[t]).cfg = Some(env)
                        /\ file = [kind |-> "json", cfg |-> env])

(***************************************************************************)
(* council.py, ollama_adapter.py: the three-stage council run              *)
(***************************************************************************)
\* Environments of the council runs: a roster of two members, and no roster.
CouncilEnvs == {Cfg(<<Q7, G>>, Some(G)), Cfg(<<>>, Some(G))}

\* What a member can answer in Stage 1, in Stage 2, and the chairman in
\* Stage 3: no answer (None), an answer with empty content, an answer.
Stage1Replies == {Failed, Replied(""), Replied("text")}
Stage2Replies == {Failed, Replied("FINAL RANKING: 1. Response A")}
ChairmanReplies == {Failed, Replied(""), Replied("answer")}

ERROR_MODEL == <<"e", "r", "r", "o", "r">>
ERROR_RESPONSE == "All models failed to respond."
FALLBACK_RESPONSE == "Error: Unable to generate final synthesis."

\* run_full_council, line 573-578: the result of a run without Stage 1 replies.
ErrorResult ==
    [stage1 |-> <<>>, stage2 |-> <<>>,
     stage3 |-> [model |-> Some(ERROR_MODEL), response |-> ERROR_RESPONSE],
     metadata |-> [empty |-> TRUE, label_to_model |-> <<>>]]

\* A gather that returns with the first reply.
GatherFirst(calls) == \E i \in DOMAIN calls : calls[i].state # "pending"

\* asyncio.gather (ollama_adapter.py line 99) returns when every call has.
GatherDone(calls) == \A i \in DOMAIN calls : calls[i].state # "pending"

\* A map that has no entry for a call that failed.
DictItems_NoFailed(models, calls, i) ==
    SelectSeq([k \in DOMAIN models |-> [model |-> models[k], call |-> calls[k]]],
              LAMBDA e : e.call.state = "replied")

\* query_models_parallel, line 105: the dict built from zip(models, responses)
\* keeps one entry per model id, at the place of its first occurrence and
\* with the response of its last; this is the list of the dict's items.
RECURSIVE DictItems(_, _, _)
DictItems(models, calls, i) ==
    IF i > Len(models) THEN <<>>
    ELSE IF \E j \in 1..(i - 1) : models[j] = models[i]
         THEN DictItems(models, calls, i + 1)
         ELSE LET last == CHOOSE k \in i..Len(models) :
                              /\ models[k] = models[i]
                              /\ \A l \in (k + 1)..Len(models) : models[l] # models[i]
              IN <<[model |-> models[i], call |-> calls[last]]>> \o DictItems(models, calls, i + 1)

IsReply(item) == item.call.state = "replied"

\* stage1_collect_responses, lines 59-72: the replies that are not None.
RECURSIVE Stage1Results(_)
Stage1Results(items) ==
    IF items = <<>> THEN <<>>
    ELSE (IF IsReply(Head(items))
          THEN <<[model |-> Head(items).model, response |-> Head(items).call.content]>>
          ELSE <<>>) \o Stage1Results(Tail(items))

\* stage2_collect_rankings, lines 191-201.
RECURSIVE Stage2Results(_)
Stage2Results(items) ==
    IF items = <<>> THEN <<>>
    ELSE (IF IsReply(Head(items))
          THEN <<[model |-> Head(items).model, ranking |-> Head(items).call.content]>>
          ELSE <<>>) \o Stage2Results(Tail(items))

\* stage2_collect_rankings, lines 105-112: label i ("Response A", ...) names
\* the model of the i-th Stage 1 result.
LabelToModel(stage1) == [i \in DOMAIN stage1 |-> stage1[i].model]

\* The labels of the Stage 1 results (lines 105 and 241): chr(65 + i).
Labels == <<"Response A", "Response B", "Response C">>

\* A ranking text is a sequence of tokens: the marker, a number with its dot
\* (\d+\.), white space (\s), a label (Response [A-Z]) or any other text.
MARKER == "FINAL RANKING:"
RankingTokens == {MARKER, "1.", " ", "word"} \cup Range(Labels)

\* The numbers of a numbered list, each with its dot.
Numbers == <<"1.", "2.", "3.", "4.">>

\* re.findall(r'\d+\.\s*Response [A-Z]', s) and the label of each match
\* (lines 446-449): a number, any white space, a label.
RECURSIVE NumberedLabels(_)
NumberedLabels(s) ==
    IF s = <<>> THEN <<>>
    ELSE IF Head(s) \notin Range(Numbers) THEN NumberedLabels(Tail(s))
    ELSE LET n == Len(s)
             j == CHOOSE j \in 2..(n + 1) :
                     /\ \A k \in 2..(j - 1) : s[k] = " "
                     /\ (j = n + 1 \/ s[j] # " ")
         IN IF j <= n /\ s[j] \in Range(Labels)
            THEN <<s[j]>> \o NumberedLabels(SubSeq(s, j + 1, n))
            ELSE NumberedLabels(Tail(s))

\* re.findall(r'Response [A-Z]', s) (lines 452 and 456).
AllLabels(s) == SelectSeq(s, LAMBDA x : x \in Range(Labels))

\* The tokens before the first marker of s; all of s if it has none.
RECURSIVE BeforeMarker(_)
BeforeMarker(s) ==
    IF s = <<>> \/ Head(s) = MARKER THEN <<>> ELSE <<Head(s)>> \o BeforeMarker(Tail(s))

\* A ranking written with its entries in the opposite order.
FormatRanking_Reversed(labels) ==
    <<MARKER>> \o [i \in 1..(4 * Len(labels)) |->
                     CASE i % 4 = 1 -> " "
                       [] i % 4 = 2 -> Numbers[(i + 2) \div 4]
                       [] i % 4 = 3 -> " "
                       [] OTHER -> labels[Len(labels) + 1 - (i \div 4)]]

\* The ranking the Stage 2 prompt asks for (lines 178-181): the marker
\* and, for the k-th label, a new line, "k.", a space and the label.
FormatRanking(labels) ==
    <<MARKER>> \o [i \in 1..(4 * Len(labels)) |->
                     CASE i % 4 = 1 -> " "
                       [] i % 4 = 2 -> Numbers[(i + 2) \div 4]
                       [] i % 4 = 3 -> " "
                       [] OTHER -> labels[i \div 4]]

\* parse_ranking_from_text, lines 426-457.  The ranking section is
\* text.split("FINAL RANKING:")[1] (lines 441-443): what stands between the
\* first marker and the second one, or the end of the text.
ParseRankingFromText(text) ==
    IF \E i \in DOMAIN text : text[i] = MARKER
    THEN LET after == SubSeq(text, Len(BeforeMarker(text)) + 2, Len(text))
             section == BeforeMarker(after)
         IN IF NumberedLabels(section) # <<>>
            THEN NumberedLabels(section)
            ELSE AllLabels(section)
    ELSE AllLabels(text)

\* The tokens of the ranking texts the members reply with.
Tokens(text) ==
    CASE text = "FINAL RANKING: 1. Response A" ->
            <<MARKER, " ", "1.", " ", "Response A">>
      [] text = "FINAL RANKING: 1. Response B 2. Response A" ->
            <<MARKER, " ", "1.", " ", "Response B", " ", "2.", " ", "Response A">>
      [] text = "FINAL RANKING: 1. Response A 2. Response B" ->
            <<MARKER, " ", "1.", " ", "Response A", " ", "2.", " ", "Response B">>
      [] text = "FINAL RANKING: 1. Response A 2. Response A 3. Response C 4. Response B" ->
            <<MARKER, " ", "1.", " ", "Response A", " ", "2.", " ", "Response A", " ",
              "3.", " ", "Response C", " ", "4.", " ", "Response B">>
      [] text = "Response C is best" ->
            <<"Response C", " ", "word">>
      [] text = "" -> <<>>
      [] OTHER -> <<"word">>

\* calculate_aggregate_rankings, lines 485-488: from position p of a parsed
\* ranking on, the model and the position (from 1) of each label that
\* label_to_model knows.
RECURSIVE KnownPositions(_, _, _)
KnownPositions(parsed, label_to_model, p) ==
    IF p > Len(parsed) THEN <<>>
    ELSE (IF \E i \in DOMAIN label_to_model : Labels[i] = parsed[p]
          THEN <<[model |-> label_to_model[CHOOSE i \in DOMAIN label_to_model :
                                               Labels[i] = parsed[p]],
                  position |-> p]>>
          ELSE <<>>) \o KnownPositions(parsed, label_to_model, p + 1)

\* calculate_aggregate_rankings, lines 479-488: the positions of all the
\* rankings, in turn.
RECURSIVE RankedPositions(_, _)
RankedPositions(stage2, label_to_model) ==
    IF stage2 = <<>> THEN <<>>
    ELSE KnownPositions(ParseRankingFromText(Tokens(Head(stage2).ranking)), label_to_model, 1)
         \o RankedPositions(Tail(stage2), label_to_model)

\* sum(positions), line 494, for the positions of model m.
RECURSIVE Sum(_, _)
Sum(ps, m) ==
    IF ps = <<>> THEN 0
    ELSE (IF Head(ps).model = m THEN Head(ps).position ELSE 0) + Sum(Tail(ps), m)

\* An aggregate that is left in the order in which the models were first met.
AggregateOf_Unsorted(ps) ==
    LET models == {ps[k].model : k \in DOMAIN ps}
        of(m) == {k \in DOMAIN ps : ps[k].model = m}
        first(m) == CHOOSE k \in of(m) : \A l \in of(m) : k <= l
        avg(m) == (200 * Sum(ps, m) + Cardinality(of(m))) \div (2 * Cardinality(of(m)))
        before(m) == {o \in models : first(o) < first(m)}
    IN [i \in 1..Cardinality(models) |->
          LET m == CHOOSE m \in models : Cardinality(before(m)) = i - 1
          IN [model |-> m, average_rank |-> avg(m), rankings_count |-> Cardinality(of(m))]]

\* calculate_aggregate_rankings, lines 490-504, for the positions ps that
\* lines 479-488 have collected: one entry per model that has
\* a position, with the average of its positions rounded to hundredths
\* (average_rank is kept in hundredths) and their number, sorted by the
\* average; list.sort is stable, so equal averages keep the order in which
\* the models were first met.
AggregateOf(ps) ==
    LET models == {ps[k].model : k \in DOMAIN ps}
        of(m) == {k \in DOMAIN ps : ps[k].model = m}
        first(m) == CHOOSE k \in of(m) : \A l \in of(m) : k <= l
        avg(m) == (200 * Sum(ps, m) + Cardinality(of(m))) \div (2 * Cardinality(of(m)))
        before(m) == {o \in models : \/ avg(o) < avg(m)
                                     \/ avg(o) = avg(m) /\ first(o) < first(m)}
    IN [i \in 1..Cardinality(models) |->
          LET m == CHOOSE m \in models : Cardinality(before(m)) = i - 1
          IN [model |-> m, average_rank |-> avg(m), rankings_count |-> Cardinality(of(m))]]

\* calculate_aggregate_rankings, lines 460-504.
CalculateAggregateRankings(stage2, label_to_model) ==
    AggregateOf(RankedPositions(stage2, label_to_model))

\* content.split('\n') (lines 325 and 335) for the texts the chairman replies
\* with: a line that contains '# Primary source:' with what follows the
\* marker, stripped (as a model id; <<>> if nothing follows); a line that
\* contains '# Confidence:' with the number re.search(r'(\d+)%') finds
\* after the marker, if any; and any other line.
Lines(content) ==
    CASE content = "answer\n# Primary source: g\n# Confidence: 85%" ->
            <<[kind |-> "text", value |-> Nothing],
              [kind |-> "primary", value |-> G],
              [kind |-> "confidence", value |-> Some(85)]>>
      [] content = "answer\n# Primary source:\n# Confidence: high" ->
            <<[kind |-> "text", value |-> Nothing],
              [kind |-> "primary", value |-> <<>>],
              [kind |-> "confidence", value |-> Nothing]>>
      [] content = "answer\n# Confidence: 250%" ->
            <<[kind |-> "text", value |-> Nothing],
              [kind |-> "confidence", value |-> Some(250)]>>
      [] content = "def f() -> bool:\n    return False" ->
            <<[kind |-> "text", value |-> Nothing], [kind |-> "text", value |-> Nothing]>>
      [] OTHER -> <<[kind |-> "text", value |-> Nothing]>>

\* The substrings the penalties look for (lines 372-408) that the text,
\* turned to lower case, contains; "return" stands for 'return' in the text
\* as it is, and "return (" for a '(' in the 20 characters after it.
Markers(text) ==
    CASE text = "def f() -> bool:\n    return False" -> {"-> bool", "return false", "return"}
      [] text = "def f() -> bool" -> {"-> bool"}
      [] text = "return a tuple" -> {"tuple", "return"}
      [] text = "trim and lowercase" -> {"trim", "lowercase"}
      [] OTHER -> {}

\* A chairman's text in which no primary source is ever found.
PrimarySource_None(content) == Nothing

\* stage3_synthesize_final, lines 322-330: the value of the first line that
\* contains '# Primary source:', if there is one.
PrimarySource(content) ==
    LET ls == SelectSeq(Lines(content), LAMBDA l : l.kind = "primary")
    IN IF ls = <<>> THEN Nothing ELSE Some(ls[1].value)

\* stage3_synthesize_final, lines 332-344: the number before '%' on the first
\* line that contains '# Confidence:', if there is one.
ChairmanConfidence(content) ==
    LET ls == SelectSeq(Lines(content), LAMBDA l : l.kind = "confidence")
    IN IF ls = <<>> THEN Nothing ELSE ls[1].value

\* stage3_synthesize_final, lines 372-408: the penalties for the chairman's
\* content and for the response of the top-ranked model.
Penalties(query, content, top_response) ==
    LET q == Markers(query)
        c == Markers(content)
        t == Markers(top_response)
    IN (IF "-> bool" \in c /\ "tuple" \in q THEN 30 ELSE 0)
       + (IF "-> str" \in c /\ "tuple" \in q /\ "-> tuple" \notin c THEN 30 ELSE 0)
       + (IF "def validate_email" \in c /\ "-> tuple" \notin c /\ "tuple" \in q THEN 30 ELSE 0)
       + (IF /\ "return false" \in c \/ "return true" \in c
             /\ "return" \in c
             /\ "tuple" \in q /\ "return (" \notin c
          THEN 20 ELSE 0)
       + (IF /\ "normalize" \in q \/ "lowercase" \in q
             /\ "lower()" \notin c /\ "lowercase" \in q
          THEN 15 ELSE 0)
       + (IF /\ "normalize" \in q \/ "lowercase" \in q
             /\ "strip()" \notin c /\ "trim" \in q
          THEN 10 ELSE 0)
       + (IF "-> bool" \in t /\ "tuple" \in q THEN 10 ELSE 0)
       + (IF "return false" \in t /\ "tuple" \in q THEN 5 ELSE 0)

\* stage3_synthesize_final, lines 250 and 308-423, once aggregate_rankings
\* is computed and the chairman's call has returned reply.  A key the
\* returned dict does not have is Nothing here, as is a top_ranked_model of
\* None.
Synthesis(query, stage1, aggregate_rankings, chairman, reply) ==
    LET top_model == IF aggregate_rankings # <<>> THEN Some(aggregate_rankings[1].model)
                     ELSE Nothing
        content == reply.content
        parsed == PrimarySource(content)
        primary_source == IF parsed # Nothing /\ parsed[1] # <<>> THEN parsed[1]
                          ELSE IF top_model # Nothing THEN top_model[1]
                          ELSE chairman
        chairman_confidence == ChairmanConfidence(content)
        gap == aggregate_rankings[2].average_rank - aggregate_rankings[1].average_rank
        consensus == IF Len(aggregate_rankings) > 1
                     THEN (LET c == 70 + (gap \div 10)
                           IN IF c < 60 THEN 60 ELSE IF c > 90 THEN 90 ELSE c)
                     ELSE IF Len(aggregate_rankings) = 1 THEN 75
                     ELSE 70
        base_confidence == IF chairman_confidence # Nothing THEN chairman_confidence[1]
                           ELSE consensus
        top_responses == {k \in DOMAIN stage1 :
                             top_model # Nothing /\ stage1[k].model = top_model[1]}
        penalties == Penalties(query, content,
                               IF top_responses = {} THEN ""
                               ELSE stage1[CHOOSE k \in top_responses :
                                               \A l \in top_responses : k <= l].response)
        lowered == base_confidence - penalties
    IN IF reply.state = "failed"
       THEN [model |-> chairman, response |-> FALLBACK_RESPONSE, primary_source |-> Nothing,
             top_ranked_model |-> Nothing, confidence |-> Nothing]
       ELSE [model |-> chairman, response |-> content,
             primary_source |-> Some(primary_source),
             top_ranked_model |-> top_model,
             confidence |-> Some(IF lowered < 30 THEN 30 ELSE lowered)]

\* A Stage 3 that hands on the content of the chairman's call as it is.
Stage3SynthesizeFinal_NoFallback(query, stage1, stage2, chairman, reply) ==
    [model |-> chairman, response |-> reply.content, primary_source |-> Nothing,
     top_ranked_model |-> Nothing, confidence |-> Nothing]

\* stage3_synthesize_final, lines 206-423, once the chairman's call has
\* returned reply.
Stage3SynthesizeFinal(query, stage1, stage2, chairman, reply) ==
    Synthesis(query, stage1, CalculateAggregateRankings(stage2, LabelToModel(stage1)),
              chairman, reply)

\* A run that skips the check of the Stage 1 results.
NoReplies_Never(stage1) == FALSE

\* run_full_council, line 565: "if not stage1_results".
NoReplies(stage1) == stage1 = <<>>

\* get_config returns within the step: the lock is taken and released.
ReadConfig(t, w) ==
    LET b == GetConfigBody(w) IN
    /\ cache' = b.cache
    /\ file' = b.file
    /\ lastLoad' = b.lastLoad
    /\ committed' = committed \cup {b.cache[1]}
    /\ waiters' = Dequeued
    /\ lockHolder' = 0

\* get_config finds the lock held, or others queueing for it, and waits.
WaitConfig(t, p) ==
    /\ waiters' = Append(waiters, t)
    /\ pc' = [pc EXCEPT ![t] = p]
    /\ UNCHANGED <<cache, file, lastLoad, committed, lockHolder>>

\* chat_completions answers with a status and, for an error, its code.
ChatAnswer(t, c, status, code) ==
    /\ chat' = [chat EXCEPT ![t] = [c EXCEPT !.status = status, !.code = code]]
    /\ pc' = [pc EXCEPT ![t] = "idle"]
    /\ Answer(t, "chat", status, Nothing)

\* main.py lines 668-704: the answer to store and send, the chairman's text
\* with the footer naming the model.
AssistantMsg(s3) == [role |-> "assistant", content |-> s3.response, footer |-> Some(s3.model)]

\* chat_completions after run_full_council has returned (lines 620-732): the
\* council_error answer, the empty_response answer, or the first save of the
\* assistant message, which begins with a read of the conversation.
ChatAfterCouncil(t, c, result) ==
    IF result.stage3.model = Some(ERROR_MODEL)
    THEN ChatAnswer(t, c, 500, "council_error")
    ELSE IF result.stage3.response = ""
    THEN ChatAnswer(t, c, 500, "empty_response")
    ELSE /\ chat' = [chat EXCEPT ![t] = [c EXCEPT !.phase = "assistant",
                                                  !.adding = AssistantMsg(result.stage3)]]
         /\ pc' = [pc EXCEPT ![t] = "add_read"]
         /\ UNCHANGED hist

IsChat(c) == c.messages # <<>>

\* run_full_council returns result to its caller; r is the run's record and c
\* the record of the chat completion that called it, if one did.
ReturnCouncil(t, r, result, c) ==
    /\ run' = [run EXCEPT ![t] = [r EXCEPT !.ret = Some(result)]]
    /\ IF IsChat(c)
       THEN ChatAfterCouncil(t, c, result)
       ELSE /\ pc' = [pc EXCEPT ![t] = "idle"]
            /\ Answer(t, "run", 200, Nothing)
            /\ chat' = [chat EXCEPT ![t] = c]

\* stage1_collect_responses from its first line: the roster is read from the
\* configuration store (line 27); an empty roster ends the run (lines 31-33,
\* 565-578), else every member is queried (line 54).
Stage1Collect(t, c) ==
    \E w \in WriteOutcomes :
        IF Acquirable(t)
        THEN LET cfg == GetConfigBody(w).cache[1]
                 r == [NoRun EXCEPT !.snapshot = Some(cfg), !.roster1 = cfg.council_models]
             IN /\ ReadConfig(t, w)
                /\ IF cfg.council_models = <<>>
                   THEN ReturnCouncil(t, r, ErrorResult, c)
                   ELSE /\ run' = [run EXCEPT ![t] =
                                     [r EXCEPT !.calls1 = [i \in DOMAIN cfg.council_models |-> Pending]]]
                        /\ pc' = [pc EXCEPT ![t] = "s1_calls"]
                        /\ chat' = [chat EXCEPT ![t] = c]
                        /\ UNCHANGED hist
        ELSE /\ WaitConfig(t, "s1_cfg_wait")
             /\ run' = [run EXCEPT ![t] = NoRun]
             /\ chat' = [chat EXCEPT ![t] = c]
             /\ UNCHANGED hist

\* The requests of one kind that have been received.
StartedOf(kind) ==
    Cardinality({t \in Tasks : pc[t] # "idle" /\ op[t].kind = kind})
    + Cardinality({p \in Tasks \X (1..MaxRequests) :
                     p[2] <= Len(hist[p[1]]) /\ hist[p[1]][p[2]].kind = kind})

\* The clients start at most MaxRuns council runs in all.
RunsStarted == StartedOf("run")

\* run_full_council is called, or resumes with the lock it waited for.
RunFullCouncil(t) ==
    /\ (CanStart(t) /\ RunsStarted < MaxRuns) \/ (pc[t] = "s1_cfg_wait" /\ Acquirable(t))
    /\ op' = [op EXCEPT ![t] = IF pc[t] = "idle" THEN [NoOp EXCEPT !.kind = "run"] ELSE @]
    /\ Stage1Collect(t, IF pc[t] = "idle" THEN NoChat ELSE chat[t])
    /\ UNCHANGED <<storage, fn, env, store>>

\* A Stage 1 call returns (query_model, lines 43-71).
Stage1Reply(t) ==
    /\ pc[t] = "s1_calls"
    /\ \E i \in DOMAIN run[t].calls1 : \E c \in Stage1Replies :
        /\ run[t].calls1[i] = Pending
        /\ run' = [run EXCEPT ![t].calls1[i] = c]
    /\ UNCHANGED <<storage, fn, env, file, cache, lockHolder, waiters, pc, op, hist, lastLoad, committed,
                   store, chat>>

\* The gather of Stage 1 has returned: the results are built (lines 59-84); a
\* run without results ends (lines 565-578); else stage2_collect_rankings
\* labels them, reads the roster from the configuration store (line 187) and
\* queries every member of it (line 188).
Stage1Gathered(t) ==
    /\ \/ pc[t] = "s1_calls" /\ GatherDone(run[t].calls1)
       \/ pc[t] = "s2_cfg_wait" /\ Acquirable(t)
    /\ LET responses == IF pc[t] = "s1_calls"
                        THEN DictItems(run[t].roster1, run[t].calls1, 1)
                        ELSE run[t].responses1
           results == Stage1Results(responses)
           r == [run[t] EXCEPT !.responses1 = responses, !.stage1 = results]
       IN IF pc[t] = "s1_calls" /\ NoReplies(results)
          THEN /\ ReturnCouncil(t, r, ErrorResult, chat[t])
               /\ UNCHANGED <<cache, file, lastLoad, committed, lockHolder, waiters>>
          ELSE \E w \in WriteOutcomes :
               IF Acquirable(t)
               THEN LET c == GetConfigBody(w).cache[1] IN
                    /\ ReadConfig(t, w)
                    /\ run' = [run EXCEPT ![t] =
                                 [r EXCEPT !.roster2 = c.council_models,
                                           !.calls2 = [i \in DOMAIN c.council_models |-> Pending]]]
                    /\ pc' = [pc EXCEPT ![t] = "s2_calls"]
                    /\ UNCHANGED <<hist, chat>>
               ELSE /\ WaitConfig(t, "s2_cfg_wait")
                    /\ run' = [run EXCEPT ![t] = r]
                    /\ UNCHANGED <<hist, chat>>
    /\ UNCHANGED <<storage, fn, env, op, store>>

\* A Stage 2 call returns.
Stage2Reply(t) ==
    /\ pc[t] = "s2_calls"
    /\ \E i \in DOMAIN run[t].calls2 : \E c \in Stage2Replies :
        /\ run[t].calls2[i] = Pending
        /\ run' = [run EXCEPT ![t].calls2[i] = c]
    /\ UNCHANGED <<storage, fn, env, file, cache, lockHolder, waiters, pc, op, hist, lastLoad, committed,
                   store, chat>>

\* The gather of Stage 2 has returned: the rankings are built (lines 191-203),
\* stage3_synthesize_final reads the chairman from the configuration store
\* (line 225) and queries it (line 306).
Stage2Gathered(t) ==
    /\ \/ pc[t] = "s2_calls" /\ GatherDone(run[t].calls2)
       \/ pc[t] = "s3_cfg_wait" /\ Acquirable(t)
    /\ LET responses == IF pc[t] = "s2_calls"
                        THEN DictItems(run[t].roster2, run[t].calls2, 1)
                        ELSE run[t].responses2
           results == Stage2Results(responses)
           r == [run[t] EXCEPT !.responses2 = responses, !.stage2 = results,
                               !.stage2done = TRUE]
       IN \E w \in WriteOutcomes :
           IF Acquirable(t)
           THEN LET c == GetConfigBody(w).cache[1] IN
                /\ ReadConfig(t, w)
                /\ run' = [run EXCEPT ![t] =
                             [r EXCEPT !.chairman = Some(c.chairman_model),
                                       !.chairCall = "pending"]]
                /\ pc' = [pc EXCEPT ![t] = "s3_call"]
           ELSE /\ WaitConfig(t, "s3_cfg_wait")
                /\ run' = [run EXCEPT ![t] = r]
    /\ UNCHANGED <<storage, fn, env, op, hist, store, chat>>

\* The query run_full_council is called with: for a chat completion the
\* last user message (main.py lines 585 and 610), else any text.
UserQuery(c) == IF IsChat(c) THEN Last(UserQueries(c.messages)).content ELSE "q"

\* stage3_synthesize_final, lines 306-315 and 317-423: the chairman's call
\* returns and the run returns its four results (lines 598-605).
Stage3Synthesized(t) ==
    /\ pc[t] = "s3_call"
    /\ \E c \in ChairmanReplies :
        LET r == [run[t] EXCEPT !.chairCall = c.state]
            s3 == Stage3SynthesizeFinal(UserQuery(chat[t]), r.stage1, r.stage2, r.chairman[1], c)
        IN ReturnCouncil(t, r,
               [stage1 |-> r.stage1, stage2 |-> r.stage2, stage3 |-> s3,
                metadata |-> [empty |-> FALSE, label_to_model |-> LabelToModel(r.stage1)]],
               chat[t])
    /\ UNCHANGED <<storage, fn, env, op, store, cache, file, lastLoad, committed, lockHolder, waiters>>

\* The overlay file is the one an earlier process of the same environment
\* has written.
InitCouncil ==
    /\ fn = NoFn
    /\ storage = NoStorage
    /\ env \in CouncilEnvs
    /\ file = [kind |-> "json", cfg |-> env]
    /\ cache = Nothing
    /\ lockHolder = 0
    /\ waiters = <<>>
    /\ pc = [t \in Tasks |-> "idle"]
    /\ op = [t \in Tasks |-> NoOp]
    /\ hist = [t \in Tasks |-> <<>>]
    /\ lastLoad = NoLoad
    /\ committed = {}
    /\ run = [t \in Tasks |-> NoRun]
    /\ store = [id \in ConvIds |-> Nothing]
    /\ chat = [t \in Tasks |-> NoChat]

\* Council runs, with update_config and reload_config called by other requests.
NextCouncil ==
    \E t \in Tasks :
        \/ RunFullCouncil(t)
        \/ Stage1Reply(t)
        \/ Stage1Gathered(t)
        \/ Stage2Reply(t)
        \/ Stage2Gathered(t)
        \/ Stage3Synthesized(t)
        \/ UpdateConfig(t)
        \/ ReloadConfig(t)

CouncilSpec == InitCouncil /\ [][NextCouncil]_vars

\* Every model call returns or times out (httpx timeout, query_model line 46),
\* and the event loop runs every coroutine that can run.
ServeCouncil(t) ==
    /\ pc[t] # "idle"
    /\ \/ RunFullCouncil(t)
       \/ Stage1Reply(t)
       \/ Stage1Gathered(t)
       \/ Stage2Reply(t)
       \/ Stage2Gathered(t)
       \/ Stage3Synthesized(t)
       \/ UpdateConfig(t)
       \/ ReloadConfig(t)

FairCouncilSpec == CouncilSpec /\ \A t \in Tasks : WF_vars(ServeCouncil(t))

\* C3: a run that has Stage 1 replies goes on to query, in Stage 2, the
\* members of the configuration it captured at Stage 1, and a run that has
\* gathered Stage 2 goes on to query, in Stage 3, the chairman of that same
\* configuration, whatever update() and reload() calls arrive in between.
C3_OneRosterSnapshot ==
    \A t \in Tasks :
        /\ (pc[t] = "s1_calls" /\ \E i \in DOMAIN run[t].calls1 : run[t].calls1[i].state = "replied")
              ~> (/\ run[t].calls2 # <<>>
                  /\ run[t].roster2 = run[t].snapshot[1].council_models)
        /\ (pc[t] = "s2_calls")
              ~> (/\ run[t].chairCall # "none"
                  /\ run[t].chairman = Some(run[t].snapshot[1].chairman_model))

\* C7: the stages are strictly sequential: while any Stage 2 call is issued,
\* every Stage 1 call of the run has returned, and while the chairman's call
\* is issued, every Stage 2 call of the run has returned.
C7_StagesSequential ==
    \A t \in Tasks :
        /\ run[t].calls2 # <<>> =>
              /\ run[t].calls1 # <<>>
              /\ \A i \in DOMAIN run[t].calls1 : run[t].calls1[i].state # "pending"
        /\ run[t].chairCall # "none" =>
              /\ \A i \in DOMAIN run[t].calls1 : run[t].calls1[i].state # "pending"
              /\ \A i \in DOMAIN run[t].calls2 : run[t].calls2[i].state # "pending"

C7_Witness ==
    \E t \in Tasks :
        /\ run[t].chairCall = "pending"
        /\ Len(run[t].calls1) = 2
        /\ Len(run[t].calls2) = 2
        /\ run[t].calls1[1].state = "failed"
        /\ run[t].calls2[2].state = "replied"

\* C10: a run whose Stage 1 yields no replies (every member failed, or the
\* roster is empty) returns [], [], a synthesis whose model is "error" and
\* empty metadata, and has made no Stage 2 or Stage 3 call.
C10_NoRepliesResult ==
    \A t \in Tasks :
        (/\ run[t].ret # Nothing
         /\ \A i \in DOMAIN run[t].calls1 : run[t].calls1[i].state = "failed") =>
            /\ run[t].ret[1].stage1 = <<>>
            /\ run[t].ret[1].stage2 = <<>>
            /\ run[t].ret[1].stage3.model = Some(ERROR_MODEL)
            /\ run[t].ret[1].metadata.empty
            /\ run[t].calls2 = <<>>
            /\ run[t].chairCall = "none"

C10_Witness ==
    \E t \in Tasks :
        /\ run[t].ret # Nothing
        /\ Len(run[t].calls1) = 2
        /\ \A i \in DOMAIN run[t].calls1 : run[t].calls1[i].state = "failed"
        /\ run[t].ret[1].stage3.model = Some(ERROR_MODEL)

\* The Stage 1 results of the run are built.
Stage1Built(t) ==
    /\ run[t].calls1 # <<>>
    /\ pc[t] = "s2_cfg_wait" \/ run[t].calls2 # <<>> \/ run[t].ret # Nothing

\* The members of the Stage 1 roster whose call returned a reply that is not
\* empty, as places in the roster.
Successes(t) ==
    {i \in DOMAIN run[t].roster1 :
        run[t].calls1[i].state = "replied" /\ run[t].calls1[i].content # ""}

\* C17: the Stage 1 results hold exactly the members whose call returned a
\* reply with content that is not empty: a member whose call failed or whose
\* content is the empty string is dropped and gets no label in Stage 2.
C17_Stage1Replies ==
    \A t \in Tasks :
        Stage1Built(t) =>
            \A i \in DOMAIN run[t].roster1 :
                (\E k \in DOMAIN run[t].stage1 : run[t].stage1[k].model = run[t].roster1[i])
                    <=> i \in Successes(t)

\* C18: in a run that reaches Stage 2, label_to_model is a bijection between
\* the labels "Response A", "Response B", ... and the Stage 1 successes: one
\* label per success, in the order of the Stage 1 roster, and no label for a
\* member that failed.
C18_LabelBijection ==
    \A t \in Tasks :
        run[t].calls2 # <<>> =>
            LET label_to_model == LabelToModel(run[t].stage1)
                at(m) == CHOOSE i \in DOMAIN run[t].roster1 : run[t].roster1[i] = m
            IN /\ {label_to_model[k] : k \in DOMAIN label_to_model}
                    = {run[t].roster1[i] : i \in Successes(t)}
               /\ Len(label_to_model) = Cardinality(Successes(t))
               /\ \A k, l \in DOMAIN label_to_model :
                     k < l => at(label_to_model[k]) < at(label_to_model[l])
               /\ \A k \in DOMAIN label_to_model :
                     run[t].calls1[at(label_to_model[k])].state # "failed"

\* C19: the map a fan-out returns has an entry for every model id it was
\* called with, every call has returned (none was cancelled), and each
\* entry is what the call for that id returned, whatever the other calls
\* did.  The ids of a roster are distinct, and the entries stand in the
\* order of the roster.
C19_FanoutMap ==
    \A t \in Tasks :
        /\ run[t].responses1 # <<>> =>
              /\ Len(run[t].responses1) = Len(run[t].roster1)
              /\ \A i \in DOMAIN run[t].roster1 :
                    /\ run[t].calls1[i].state # "pending"
                    /\ run[t].responses1[i].model = run[t].roster1[i]
                    /\ run[t].responses1[i].call = run[t].calls1[i]
        /\ run[t].responses2 # <<>> =>
              /\ Len(run[t].responses2) = Len(run[t].roster2)
              /\ \A i \in DOMAIN run[t].roster2 :
                    /\ run[t].calls2[i].state # "pending"
                    /\ run[t].responses2[i].model = run[t].roster2[i]
                    /\ run[t].responses2[i].call = run[t].calls2[i]

C19_Witness ==
    \E t \in Tasks :
        /\ Len(run[t].responses1) = 2
        /\ run[t].responses1[1].call.state = "failed"
        /\ run[t].responses1[2].call = Replied("text")
        /\ Len(run[t].responses2) = 2
        /\ run[t].responses2[1].call.state = "replied"
        /\ run[t].responses2[2].call.state = "failed"

(***************************************************************************)
(* main.py, POST /v1/chat/completions, with db_storage.py and              *)
(* conversation_tracker.py.  Conversation storage is enabled               *)
(* (ENABLE_DB_STORAGE, the default) and the database answers every query.  *)
(***************************************************************************)
\* The frames of a streamed answer (lines 741-799): the role, the content,
\* the finish reason, the terminator.
StreamFrames == <<"role", "content", "finish", "[DONE]">>

\* Environments of the chat gateway: a roster of one member.
ChatEnvs == {Cfg(<<G>>, Some(G))}

\* main.py lines 735 and 831: a streamed answer is sent after the first save
\* of the assistant message, a buffered one after a second save.
RespondAfterFirstSave(stream) == stream

\* chat_completions after add_message_to_conversation has returned ok
\* ("true" or "false"; the handler ignores it): after the user message the
\* council runs (line 610); after the assistant message the answer is
\* streamed (line 735) or saved once more (lines 835-848); after that second
\* save the buffered answer is sent (line 890).
ChatAfterAppend(t, c, ok) ==
    CASE c.phase = "user" ->
            Stage1Collect(t, [c EXCEPT !.userAppend = ok])
      [] c.phase = "assistant" ->
            /\ IF RespondAfterFirstSave(c.stream)
               THEN /\ chat' = [chat EXCEPT ![t] = [c EXCEPT !.asstAppend = ok, !.status = 200]]
                    /\ pc' = [pc EXCEPT ![t] = "chat_stream"]
               ELSE /\ chat' = [chat EXCEPT ![t] = [c EXCEPT !.asstAppend = ok,
                                                             !.phase = "assistant2"]]
                    /\ pc' = [pc EXCEPT ![t] = "add_read"]
            /\ UNCHANGED <<cache, file, lastLoad, committed, waiters, lockHolder, run, hist>>
      [] OTHER ->
            /\ ChatAnswer(t, [c EXCEPT !.asst2Append = ok, !.sent = <<"body">>], 200, "")
            /\ UNCHANGED <<cache, file, lastLoad, committed, waiters, lockHolder, run>>

\* A handler that does not look for a user message before it goes on.
ChatContext_NoCheck(t, c) ==
    /\ chat' = [chat EXCEPT ![t] =
                  [c EXCEPT !.phase = "user",
                            !.adding = Msg("user", IF UserQueries(c.messages) = <<>> THEN ""
                                                   ELSE Last(UserQueries(c.messages)).content)]]
    /\ pc' = [pc EXCEPT ![t] = "add_read"]
    /\ UNCHANGED hist

\* chat_completions after the conversation has been looked up or created
\* (lines 569-590): 400 when no message has the role "user", else the append
\* of the last user message, which begins with a read of the conversation.
ChatContext(t, c) ==
    IF UserQueries(c.messages) = <<>>
    THEN ChatAnswer(t, c, 400, "No user message found")
    ELSE /\ chat' = [chat EXCEPT ![t] =
                       [c EXCEPT !.phase = "user",
                                 !.adding = Msg("user", Last(UserQueries(c.messages)).content)]]
         /\ pc' = [pc EXCEPT ![t] = "add_read"]
         /\ UNCHANGED hist

ChatsStarted == StartedOf("chat")

\* chat_completions from its first line to the lookup of the conversation
\* (lines 517-541).
ChatCompletions(t) ==
    /\ CanStart(t)
    /\ ChatsStarted < MaxChats
    /\ \E req \in ChatRequests :
        chat' = [chat EXCEPT ![t] = [NoChat EXCEPT !.messages = req.messages,
                                                   !.stream = req.stream,
                                                   !.convId = ConversationId(req.messages)]]
    /\ op' = [op EXCEPT ![t] = [NoOp EXCEPT !.kind = "chat"]]
    /\ run' = [run EXCEPT ![t] = NoRun]
    /\ pc' = [pc EXCEPT ![t] = "chat_lookup"]
    /\ UNCHANGED <<storage, fn, env, file, cache, lockHolder, waiters, hist, lastLoad, committed, store>>

\* get_continue_conversation has answered (lines 541-563): a conversation
\* that is not stored is created if the first user message is not empty.
ChatLookedUp(t) ==
    /\ pc[t] = "chat_lookup"
    /\ IF store[chat[t].convId] = Nothing /\ TruthyStr(FirstUserMessage(chat[t].messages))
       THEN /\ pc' = [pc EXCEPT ![t] = "chat_create"]
            /\ UNCHANGED <<chat, hist>>
       ELSE ChatContext(t, chat[t])
    /\ UNCHANGED <<storage, fn, env, file, cache, lockHolder, waiters, op, lastLoad, committed, run, store>>

\* create_continue_conversation has run its INSERT (db_storage.py lines
\* 95-125): the row holds the first user message; an id that is already
\* stored makes the INSERT fail, and the handler answers 500 (main.py lines
\* 895-909).
ChatCreated(t) ==
    /\ pc[t] = "chat_create"
    /\ IF store[chat[t].convId] # Nothing
       THEN /\ ChatAnswer(t, chat[t], 500, "server_error")
            /\ UNCHANGED store
       ELSE /\ store' = [store EXCEPT ![chat[t].convId] =
                           Some([messages |->
                                   <<Msg("user", FirstUserMessage(chat[t].messages)[1])>>])]
            /\ ChatContext(t, chat[t])
    /\ UNCHANGED <<storage, fn, env, file, cache, lockHolder, waiters, op, lastLoad, committed, run>>

\* add_message_to_conversation has read the conversation (db_storage.py lines
\* 316-332): False when it is not stored, else the UPDATE is sent with the
\* messages read and the new one.
AddMessageRead(t) ==
    /\ pc[t] = "add_read"
    /\ IF store[chat[t].convId] = Nothing
       THEN ChatAfterAppend(t, chat[t], "false")
       ELSE /\ chat' = [chat EXCEPT ![t].buffer =
                          Append(store[chat[t].convId][1].messages, chat[t].adding)]
            /\ pc' = [pc EXCEPT ![t] = "add_write"]
            /\ UNCHANGED <<cache, file, lastLoad, committed, waiters, lockHolder, run, hist>>
    /\ UNCHANGED <<storage, fn, env, op, store>>

\* add_message_to_conversation has run its UPDATE (lines 338-352): the row,
\* if it is still stored, holds the messages sent; the function returns True.
AddMessageWritten(t) ==
    /\ pc[t] = "add_write"
    /\ store' = [store EXCEPT ![chat[t].convId] =
                    IF @ = Nothing THEN @ ELSE Some([messages |-> chat[t].buffer])]
    /\ ChatAfterAppend(t, chat[t], "true")
    /\ UNCHANGED <<storage, fn, env, op>>

\* generate_stream sends its next frame (main.py lines 741-799).
ChatStreamed(t) ==
    /\ pc[t] = "chat_stream"
    /\ LET sent == Append(chat[t].sent, StreamFrames[Len(chat[t].sent) + 1]) IN
       IF Len(sent) = Len(StreamFrames)
       THEN ChatAnswer(t, [chat[t] EXCEPT !.sent = sent], 200, "")
       ELSE /\ chat' = [chat EXCEPT ![t].sent = sent]
            /\ UNCHANGED <<pc, hist>>
    /\ UNCHANGED <<storage, fn, env, file, cache, lockHolder, waiters, op, lastLoad, committed, run, store>>

InitChat ==
    /\ fn = NoFn
    /\ storage = NoStorage
    /\ env \in ChatEnvs
    /\ file = [kind |-> "json", cfg |-> env]
    /\ cache = Nothing
    /\ lockHolder = 0
    /\ waiters = <<>>
    /\ pc = [t \in Tasks |-> "idle"]
    /\ op = [t \in Tasks |-> NoOp]
    /\ hist = [t \in Tasks |-> <<>>]
    /\ lastLoad = NoLoad
    /\ committed = {}
    /\ run = [t \in Tasks |-> NoRun]
    /\ store \in [ConvIds -> {Nothing}]
    /\ chat = [t \in Tasks |-> NoChat]

NextChat ==
    \E t \in Tasks :
        \/ ChatCompletions(t)
        \/ ChatLookedUp(t)
        \/ ChatCreated(t)
        \/ AddMessageRead(t)
        \/ AddMessageWritten(t)
        \/ Stage1Reply(t)
        \/ Stage1Gathered(t)
        \/ Stage2Reply(t)
        \/ Stage2Gathered(t)
        \/ Stage3Synthesized(t)
        \/ ChatStreamed(t)

ChatSpec == InitChat /\ [][NextChat]_vars

\* The message is in the stored conversation of the request.
Stored(c, m) ==
    /\ store[c.convId] # Nothing
    /\ \E i \in DOMAIN store[c.convId][1].messages : store[c.convId][1].messages[i] = m

\* C8: with storage enabled, when the first model call of a chat completion
\* is issued, the append of its user message has completed: the conversation
\* holds the message.
C8_UserStoredBeforeCalls ==
    \A t \in Tasks :
        (IsChat(chat[t]) /\ run[t].calls1 # <<>>) =>
            /\ chat[t].userAppend = "true"
            /\ Stored(chat[t], Msg("user", Last(UserQueries(chat[t].messages)).content))

\* C9: for every successful chat completion, streamed or buffered, the
\* assistant message is persisted before any byte of the body is sent.
C9_AssistantStoredBeforeBody ==
    \A t \in Tasks :
        (IsChat(chat[t]) /\ chat[t].status = 200 /\ chat[t].sent # <<>>) =>
            /\ chat[t].asstAppend = "true"
            /\ Stored(chat[t], AssistantMsg(run[t].ret[1].stage3))

\* C11: when every member fails in Stage 1 of a chat completion, the answer
\* is 500 with the code "council_error", and the conversation named by the
\* envelope's conversation_id is stored, holds the user message and holds no
\* assistant message.
C11_AllFailedEnvelope ==
    \A t \in Tasks :
        (/\ IsChat(chat[t])
         /\ run[t].ret # Nothing
         /\ run[t].calls1 # <<>>
         /\ \A i \in DOMAIN run[t].calls1 : run[t].calls1[i].state = "failed") =>
            /\ chat[t].status = 500
            /\ chat[t].code = "council_error"
            /\ Stored(chat[t], Msg("user", Last(UserQueries(chat[t].messages)).content))
            /\ \A i \in DOMAIN store[chat[t].convId][1].messages :
                  store[chat[t].convId][1].messages[i].role # "assistant"

\* C12: when the chairman's call fails in a run that has Stage 1 replies, the
\* synthesis is the text "Error: Unable to generate final synthesis." under
\* the chairman's model id, and the chat completion is answered 200, not
\* with an error envelope.
C12_ChairmanFailure ==
    \A t \in Tasks :
        (/\ IsChat(chat[t])
         /\ run[t].ret # Nothing
         /\ run[t].stage1 # <<>>
         /\ run[t].chairCall = "failed") =>
            /\ run[t].ret[1].stage3.response = FALLBACK_RESPONSE
            /\ run[t].ret[1].stage3.model = run[t].chairman[1]
            /\ chat[t].code = ""
            /\ chat[t].status \in {0, 200}
            /\ pc[t] = "idle" => chat[t].status = 200

C12_Witness ==
    \E t \in Tasks :
        /\ IsChat(chat[t])
        /\ run[t].chairCall = "failed"
        /\ run[t].stage1 # <<>>
        /\ pc[t] = "idle"
        /\ chat[t].status = 200
        /\ chat[t].sent = <<"body">>

\* C25: when the one request received so far, with a single user message,
\* has been answered 200, its conversation holds exactly two messages, the
\* user's and the assistant's; and whatever number of such requests has been
\* answered, the stored messages alternate user, assistant, from a user's.
C25_TwoMessagesPerRequest ==
    \A t \in Tasks :
        (/\ Len(chat[t].messages) = 1
         /\ chat[t].messages[1].role = "user"
         /\ chat[t].status = 200
         /\ pc[t] = "idle"
         /\ \A u \in Tasks : pc[u] = "idle") =>
            /\ store[chat[t].convId] # Nothing
            /\ ChatsStarted = 1 => Len(store[chat[t].convId][1].messages) = 2
            /\ \A i \in DOMAIN store[chat[t].convId][1].messages :
                  store[chat[t].convId][1].messages[i].role
                     = (IF i % 2 = 1 THEN "user" ELSE "assistant")

\* C39: a chat completion whose messages hold no user message issues no
\* model call, creates no conversation and appends no message, and the
\* answer it gets is 400.
C39_NoUserMessageRejected ==
    \A t \in Tasks :
        (IsChat(chat[t]) /\ UserQueries(chat[t].messages) = <<>>) =>
            /\ run[t] = NoRun
            /\ store[chat[t].convId] = Nothing
            /\ chat[t].userAppend = "none"
            /\ chat[t].asstAppend = "none"
            /\ chat[t].asst2Append = "none"
            /\ pc[t] \in {"idle", "chat_lookup"}
            /\ pc[t] = "idle" =>
                  /\ chat[t].status = 400
                  /\ Last(hist[t]).kind = "chat"
                  /\ Last(hist[t]).status = 400

C39_Witness ==
    \E t \in Tasks :
        /\ IsChat(chat[t])
        /\ UserQueries(chat[t].messages) = <<>>
        /\ pc[t] = "idle"
        /\ chat[t].status = 400
        /\ \A id \in ConvIds : store[id] = Nothing

\* C38: a request that has been answered 200 has appended exactly one
\* assistant message to its conversation, with stream true and with stream
\* false alike, so that both modes store the same messages.
C38_OneAssistantMessageInBothModes ==
    \A t \in Tasks :
        (/\ chat[t].status = 200
         /\ pc[t] = "idle"
         /\ ChatsStarted = 1
         /\ store[chat[t].convId] # Nothing) =>
            Cardinality({i \in DOMAIN store[chat[t].convId][1].messages :
                           store[chat[t].convId][1].messages[i].role = "assistant"}) = 1

(***************************************************************************)
(* Functions of council.py applied on their own, to each of their inputs   *)
(* within the bounds.                                                      *)
(***************************************************************************)
\* The state of the server while a function is applied on its own.
NoServer ==
    /\ storage = NoStorage
    /\ env \in ChatEnvs
    /\ file = [kind |-> "json", cfg |-> env]
    /\ cache = Nothing
    /\ lockHolder = 0
    /\ waiters = <<>>
    /\ pc = [t \in Tasks |-> "idle"]
    /\ op = [t \in Tasks |-> NoOp]
    /\ hist = [t \in Tasks |-> <<>>]
    /\ lastLoad = NoLoad
    /\ committed = {}
    /\ run = [t \in Tasks |-> NoRun]
    /\ store \in [ConvIds -> {Nothing}]
    /\ chat = [t \in Tasks |-> NoChat]

\* The ranking texts of at most MaxTextLen tokens.
RankingTexts == UNION {[1..n -> RankingTokens] : n \in 0..MaxTextLen}

\* Calls of stage3_synthesize_final with the reply its chairman call gets:
\* one or two Stage 1 results, rankings of none, one or two members, a
\* chairman outside the roster.
Stage3Inputs ==
    [query : {"q", "return a tuple"},
     stage1 : {<<[model |-> Q7, response |-> "text"]>>,
               <<[model |-> Q7, response |-> "text"],
                 [model |-> G, response |-> "def f() -> bool"]>>},
     stage2 : {<<>>,
               <<[model |-> Q7, ranking |-> "Response C is best"]>>,
               <<[model |-> G, ranking |-> "FINAL RANKING: 1. Response B 2. Response A"]>>,
               <<[model |-> Q7, ranking |-> "FINAL RANKING: 1. Response B 2. Response A"],
                 [model |-> G, ranking |-> "FINAL RANKING: 1. Response A"]>>},
     chairman : {Z},
     reply : {Failed, Replied("answer"),
              Replied("answer\n# Primary source: g\n# Confidence: 85%"),
              Replied("answer\n# Primary source:\n# Confidence: high"),
              Replied("answer\n# Confidence: 250%"),
              Replied("def f() -> bool:\n    return False")}]

\* The texts a member ranks with: none, a sentence, the list asked for, a
\* list that repeats a label and names one more than there are results.
RankingReplies ==
    {"", "Response C is best",
     "FINAL RANKING: 1. Response A",
     "FINAL RANKING: 1. Response A 2. Response B",
     "FINAL RANKING: 1. Response B 2. Response A",
     "FINAL RANKING: 1. Response A 2. Response A 3. Response C 4. Response B"}

\* Calls of calculate_aggregate_rankings: the rankings of at most MaxRankings
\* members, and the labels of one, two or three Stage 1 results.
AggregateInputs ==
    [stage2 : UNION {[1..n -> [model : {G}, ranking : RankingReplies]] : n \in 0..MaxRankings},
     label_to_model : {<<Q7>>, <<Q7, G>>, <<Q7, G, Z>>}]

\* The message arrays of at most MaxMessages messages.
MessageArrays ==
    UNION {[1..n -> {Msg("user", "q"), Msg("user", "r"), Msg("user", ""), Msg("system", "s"),
                     Msg("assistant", "a")}] : n \in 0..MaxMessages}

\* The footer that main.py lines 692-704 append to every answer is never
\* shorter than "\n\n*Model: g* | *Response time: 0.00s*".
MinContentLen == 37

\* The texts of a given length: the characters differ from each to the next.
Alphabet == <<"a", "b", "c", "d", "e", "f", "g">>
Text(n) == [i \in 1..n |-> Alphabet[(i % 7) + 1]]
FinalContents == {Text(n) : n \in MinContentLen..MaxContentLen}

\* The frames of generate_stream (main.py lines 746-796): a chunk with its
\* delta and finish_reason, or the literal 'data: [DONE]'.
Chunk(role, content, finish_reason) ==
    [data |-> "chunk", role |-> role, content |-> content, finish_reason |-> finish_reason]
DoneFrame == [data |-> "[DONE]", role |-> Nothing, content |-> Nothing, finish_reason |-> Nothing]

\* generate_stream before its first frame is asked for.
StreamStart == [at |-> "role", i |-> 0, sent |-> <<>>]

\* main.py line 762.
chunk_size == 50

\* A slice that leaves out the last character of the content.
Slice_Short(final_content, i) ==
    SubSeq(final_content, i + 1,
           IF i + chunk_size < Len(final_content) THEN i + chunk_size
           ELSE Len(final_content) - 1)

\* final_content[i:i+chunk_size] (line 766).
Slice(final_content, i) ==
    SubSeq(final_content, i + 1,
           IF i + chunk_size < Len(final_content) THEN i + chunk_size ELSE Len(final_content))

\* A generator that ends the stream without the chunk that carries
\* finish_reason "stop".
StreamStep_NoFinish(final_content, g) ==
    CASE g.at = "role" ->
            [at |-> "content", i |-> 0, sent |-> <<Chunk(Some("assistant"), Nothing, Nothing)>>]
      [] g.at = "content" /\ g.i < Len(final_content) ->
            [g EXCEPT !.i = g.i + chunk_size,
                      !.sent = Append(g.sent, Chunk(Nothing, Some(Slice(final_content, g.i)),
                                                    Nothing))]
      [] OTHER ->
            [g EXCEPT !.at = "closed", !.sent = Append(g.sent, DoneFrame)]

\* generate_stream, lines 741-796, from one yield to the next: the state of
\* the generator once it has yielded its next frame.
StreamStep(final_content, g) ==
    CASE g.at = "role" ->
            [at |-> "content", i |-> 0, sent |-> <<Chunk(Some("assistant"), Nothing, Nothing)>>]
      [] g.at = "content" /\ g.i < Len(final_content) ->
            [g EXCEPT !.i = g.i + chunk_size,
                      !.sent = Append(g.sent, Chunk(Nothing, Some(Slice(final_content, g.i)),
                                                    Nothing))]
      [] g.at = "content" ->
            [g EXCEPT !.at = "done",
                      !.sent = Append(g.sent, Chunk(Nothing, Nothing, Some("stop")))]
      [] OTHER ->
            [g EXCEPT !.at = "closed", !.sent = Append(g.sent, DoneFrame)]

\* choices[0].message.content of the buffered answer (lines 858-861).
MessageContent(final_content) == final_content

\* An exception: its class and, for an HTTPException, status_code and
\* detail; for any other class, detail is the text of the exception.
HTTPException(status_code, detail) ==
    [class |-> "HTTPException", status_code |-> status_code, detail |-> detail]
Raised(class, text) == [class |-> class, status_code |-> 0, detail |-> text]

\* Bodies of answers: the error envelope, and {"detail": ...}.
Envelope(message, type, code) ==
    [error |-> Some([message |-> message, type |-> type, code |-> code]), detail |-> Nothing]
DetailBody(detail) == [error |-> Nothing, detail |-> Some(detail)]
Response(status_code, body) == [status_code |-> status_code, body |-> body]

\* global_exception_handler, main.py lines 199-244.
GlobalExceptionHandler(exc) ==
    IF exc.class = "HTTPException"
    THEN Response(exc.status_code,
                  Envelope(exc.detail, "http_exception", <<"http_", exc.status_code>>))
    ELSE IF exc.class = "RequestValidationError"
    THEN Response(422, Envelope("Request validation failed", "validation_error",
                                <<"invalid_request">>))
    ELSE Response(500, Envelope("An internal error occurred", "internal_error",
                                <<"server_error">>))

\* The answer to an exception that leaves an endpoint.  Line 199 registers
\* global_exception_handler for the class Exception, and nothing is
\* registered for HTTPException or RequestValidationError: the framework
\* keeps the handler of Exception for the exceptions no other handler
\* takes, and answers those two classes with its own handlers, whose body
\* is {"detail": ...}.
ExceptionResponse(exc) ==
    IF exc.class = "HTTPException" THEN Response(exc.status_code, DetailBody(exc.detail))
    ELSE IF exc.class = "RequestValidationError" THEN Response(422, DetailBody("errors"))
    ELSE GlobalExceptionHandler(exc)

\* A handler that answers with the text of the exception.
ChatCompletionsExcept_Leaky(exc) ==
    IF exc.class = "HTTPException" THEN ExceptionResponse(exc)
    ELSE Response(500, Envelope(exc.detail, "internal_error", <<"server_error">>))

\* chat_completions, lines 892-909: an HTTPException is raised again, any
\* other exception is answered 500 with a fixed body.
ChatCompletionsExcept(exc) ==
    IF exc.class = "HTTPException" THEN ExceptionResponse(exc)
    ELSE Response(500, Envelope("An error occurred while processing your request",
                                "internal_error", <<"server_error">>))

\* The answer when exc is raised in the body of an endpoint: the except
\* clauses of the endpoint (lines 377-383, 403-407, 892-909), then the
\* handlers.
EndpointRaises(endpoint, exc) ==
    CASE endpoint = "chat_completions" -> ChatCompletionsExcept(exc)
      [] endpoint = "update_council_config" ->
            ExceptionResponse(IF exc.class = "HTTPException" THEN exc
                              ELSE HTTPException(500, "Failed to update configuration"))
      [] endpoint = "reload_council_config" ->
            ExceptionResponse(HTTPException(500, "Failed to reload configuration"))
      [] OTHER -> ExceptionResponse(exc)

\* Exceptions of the code below the endpoints, with their texts.
InternalExceptions ==
    {Raised("KeyError", "'response'"),
     Raised("UniqueViolationError", "duplicate key value violates unique constraint"),
     Raised("OSError", "[Errno 28] No space left on device: 'data/council_config.json'")}

\* The error exits of the HTTP surface: the exceptions the endpoints raise
\* (lines 349-360, 462, 475, 583, 921, 997-1010), those raised below them, a
\* request body that fails validation, and the error answers that
\* chat_completions returns itself (lines 640-643, 658-666).
ErrorExits ==
    [endpoint : {"update_council_config"},
     raised : {Some(HTTPException(400, "Models not available in Ollama")),
               Some(HTTPException(400, "Chairman model not available in Ollama"))},
     returned : {Nothing}]
    \cup [endpoint : {"get_conversation", "send_message", "send_message_stream"},
          raised : {Some(HTTPException(404, "Conversation not found"))},
          returned : {Nothing}]
    \cup [endpoint : {"chat_completions"},
          raised : {Some(HTTPException(400, "No user message found"))},
          returned : {Nothing}]
    \cup [endpoint : {"chat_completions"},
          raised : {Nothing},
          returned : {Some(Response(500, Envelope("All models failed to respond.",
                                                  "council_error", <<"council_error">>))),
                      Some(Response(500, Envelope("The model returned an empty response.",
                                                  "invalid_response_error",
                                                  <<"empty_response">>)))}]
    \cup [endpoint : {"delete_conversation"},
          raised : {Some(HTTPException(503, "Database storage is disabled")),
                    Some(HTTPException(404, "Conversation not found")),
                    Some(HTTPException(500, "Failed to delete conversation"))},
          returned : {Nothing}]
    \cup [endpoint : {"update_council_config", "reload_council_config", "chat_completions",
                      "get_config_endpoint", "delete_conversation"},
          raised : {Some(e) : e \in InternalExceptions},
          returned : {Nothing}]
    \cup [endpoint : {"update_council_config", "chat_completions", "send_message"},
          raised : {Some(Raised("RequestValidationError", "field required"))},
          returned : {Nothing}]

\* A line of markdown: the number of blanks it begins with, what it is
\* ("blank", "fence" for ```, "header", "text", the marker "-" or "*" of a
\* bullet, the delimiter "." or ")" of a numbered item), the number of a
\* numbered item, and the text after the marker.
BlankLine == [indent |-> 0, kind |-> "blank", num |-> 0, body |-> ""]
FenceLine == [indent |-> 0, kind |-> "fence", num |-> 0, body |-> ""]
TextLine(indent, body) == [indent |-> indent, kind |-> "text", num |-> 0, body |-> body]
HeaderLine(body) == [indent |-> 0, kind |-> "header", num |-> 0, body |-> body]
BulletLine(indent, marker, body) ==
    [indent |-> indent, kind |-> marker, num |-> 0, body |-> body]
NumberedLine(indent, num, delimiter, body) ==
    [indent |-> indent, kind |-> delimiter, num |-> num, body |-> body]

\* The contents given to format_markdown_response: the texts of one to
\* MaxLines of these lines.
MdLines ==
    {BlankLine, FenceLine, TextLine(0, "x = 1"), TextLine(4, "y"), HeaderLine("T"),
     BulletLine(0, "*", "item"), BulletLine(0, "-", "item"), NumberedLine(0, 1, ")", "item")}
MdContents == UNION {[1..n -> MdLines] : n \in 1..MaxLines}

\* main.py lines 51, 53 and 72: the stripped line matches the pattern of a
\* bullet, of a numbered item, or begins, unstripped, with "-".
IsBullet(line) == line.kind \in {"-", "*"}
IsNumbered(line) == line.kind \in {".", ")"}
LastIsText(lines) == lines # <<>> /\ Last(lines).kind # "blank"

\* main.py lines 40-109, the loop over the lines: its variables before the
\* first line and after one more line.
LoopStart == [formatted_lines |-> <<>>, in_list |-> FALSE, list_type |-> "none",
              list_counter |-> 1]

BulletStep(st, line, new) ==
    [formatted_lines |->
         Append(IF new /\ LastIsText(st.formatted_lines)
                       /\ ~(Last(st.formatted_lines).kind = "-"
                            /\ Last(st.formatted_lines).indent = 0)
                THEN Append(st.formatted_lines, BlankLine) ELSE st.formatted_lines,
                BulletLine(0, "-", line.body)),
     in_list |-> TRUE, list_type |-> "bullet",
     list_counter |-> IF new THEN 1 ELSE st.list_counter]

NumberedStep(st, line, new) ==
    [formatted_lines |->
         Append(IF new /\ LastIsText(st.formatted_lines)
                       /\ ~IsNumbered(Last(st.formatted_lines))
                THEN Append(st.formatted_lines, BlankLine) ELSE st.formatted_lines,
                NumberedLine(0, IF new THEN line.num ELSE st.list_counter, ".", line.body)),
     in_list |-> TRUE, list_type |-> "numbered",
     list_counter |-> (IF new THEN line.num ELSE st.list_counter) + 1]

RegularStep(st, line, ends, before) ==
    [formatted_lines |->
         IF line.kind = "blank"
         THEN IF LastIsText(before) THEN Append(before, BlankLine) ELSE before
         ELSE Append(before, line),
     in_list |-> IF ends THEN FALSE ELSE st.in_list,
     list_type |-> IF ends THEN "none" ELSE st.list_type,
     list_counter |-> IF ends THEN 1 ELSE st.list_counter]

LineStep(st, line) ==
    IF IsBullet(line)
    THEN BulletStep(st, line, ~st.in_list \/ st.list_type # "bullet")
    ELSE IF IsNumbered(line)
    THEN NumberedStep(st, line, ~st.in_list \/ st.list_type # "numbered")
    ELSE RegularStep(st, line,
                     st.in_list /\ line.kind # "blank" /\ line.indent < 2,
                     IF st.in_list /\ line.kind # "blank" /\ line.indent < 2
                        /\ LastIsText(st.formatted_lines)
                     THEN Append(st.formatted_lines, BlankLine) ELSE st.formatted_lines)

RECURSIVE FormatLines(_, _, _)
FormatLines(lines, i, st) ==
    IF i > Len(lines) THEN st.formatted_lines
    ELSE FormatLines(lines, i + 1, LineStep(st, lines[i]))

\* main.py line 117, the split at the code blocks ```...\n...```: line k is
\* in a code block when it is a fence that opens one (an even number of
\* fences before it, one after it), a fence that closes one, or a line
\* between the two.
FencesBefore(lines, k) == Cardinality({j \in 1..(k - 1) : lines[j].kind = "fence"})
InCodeBlock(lines, k) ==
    IF FencesBefore(lines, k) % 2 = 1
    THEN lines[k].kind = "fence" \/ \E j \in (k + 1)..Len(lines) : lines[j].kind = "fence"
    ELSE lines[k].kind = "fence" /\ \E j \in (k + 1)..Len(lines) : lines[j].kind = "fence"

\* main.py lines 119-126: outside the code blocks, a header that is not the
\* first line gets a blank line after it when the next line, in the same
\* part, begins with something else than a blank or "#".  A text that
\* begins with its only fence is one part that begins with ```, and is
\* left alone as a code block is.
HeaderSpaced(lines, k) ==
    /\ lines[k].kind = "header"
    /\ ~(lines[1].kind = "fence" /\ FencesBefore(lines, Len(lines) + 1) = 1)
    /\ ~InCodeBlock(lines, k)
    /\ 1 < k
    /\ k < Len(lines)
    /\ ~InCodeBlock(lines, k + 1)
    /\ lines[k + 1].kind \notin {"blank", "header"}
    /\ lines[k + 1].indent = 0

RECURSIVE FixHeaders(_, _)
FixHeaders(lines, k) ==
    IF k > Len(lines) THEN <<>>
    ELSE (IF HeaderSpaced(lines, k) THEN <<lines[k], BlankLine>> ELSE <<lines[k]>>)
         \o FixHeaders(lines, k + 1)

\* main.py line 131: four or more newlines in a row become three.  Line k
\* is dropped when it is the third or a later one of the empty lines in a
\* row, not the last line of the text and not one of its first three.
ExtraBlank(lines, k) ==
    /\ 3 < k
    /\ k < Len(lines)
    /\ \A j \in (k - 2)..k : lines[j].kind = "blank"

RECURSIVE CollapseNewlines(_, _)
CollapseNewlines(lines, k) ==
    IF k > Len(lines) THEN <<>>
    ELSE (IF ExtraBlank(lines, k) THEN <<>> ELSE <<lines[k]>>)
         \o CollapseNewlines(lines, k + 1)

\* main.py line 135: a line that begins with "-", "*" or a number and "."
\* or ")" gets a blank line before it when the line before it is not empty,
\* inside code blocks as outside.
RECURSIVE ListSpacing(_, _)
ListSpacing(lines, k) ==
    IF k > Len(lines) THEN <<>>
    ELSE (IF /\ k < Len(lines)
             /\ lines[k].kind # "blank"
             /\ lines[k + 1].indent = 0
             /\ IsBullet(lines[k + 1]) \/ IsNumbered(lines[k + 1])
          THEN <<lines[k], BlankLine>> ELSE <<lines[k]>>)
         \o ListSpacing(lines, k + 1)

\* format_markdown_response, main.py lines 31-137: the lines of the text
\* returned for the content with these lines.
FormatMarkdownResponse(lines) ==
    IF lines = <<BlankLine>> THEN lines
    ELSE ListSpacing(CollapseNewlines(FixHeaders(FormatLines(lines, 1, LoopStart), 1), 1), 1)

\* The stage data given to add_message_to_conversation: None, or a dict,
\* kept as the set of its items.
StageKeys == {"stage1", "stage2", "stage3"}
AllStages == {<<"stage1", "s1">>, <<"stage2", "s2">>, <<"stage3", "s3">>}
StageData == {Nothing, Some({}), Some({<<"stage3", "s3">>}), Some(AllStages)}

\* An entry that forgets the stage data.
CreateMessageEntry_NoStages(role, content, stage_data, now) ==
    [role |-> role, content |-> content, timestamp |-> now, stages |-> {}]

\* create_message_entry, conversation_tracker.py lines 132-159: the stage
\* data are copied when they are given, not empty, and the role is
\* "assistant".
CreateMessageEntry(role, content, stage_data, now) ==
    [role |-> role, content |-> content, timestamp |-> now,
     stages |-> IF stage_data # Nothing /\ stage_data[1] # {} /\ role = "assistant"
                THEN {item \in stage_data[1] : item[1] \in StageKeys}
                ELSE {}]

\* The chat table as db_storage.py sees it: per id, no row, a row that
\* create_continue_conversation wrote (source 'continue', line 90) or a row
\* of another writer of the table.
ChatRows ==
    [source : {"continue", "webui"}, title : {"Continue Conversation"},
     messages : {<<CreateMessageEntry("user", "q", Nothing, 0)>>,
                 <<CreateMessageEntry("user", "q", Nothing, 0),
                   CreateMessageEntry("assistant", "a", Some(AllStages), 0)>>},
     updated_at : {0}]
ChatTables == [ConvIds -> {Nothing} \cup {Some(row) : row \in ChatRows}]

\* What a call meets: a pool and a statement that runs, no pool
\* (db.get_pool() returns None), or an exception inside the try.
DbOutcomes == {"ok", "no_pool", "raises"}

\* A delete that takes any "DELETE n" status for a deletion.
DeleteConversation_NoCount(table, conversation_id, db) ==
    IF db = "no_pool" \/ db = "raises"
    THEN [table |-> table, result |-> FALSE]
    ELSE IF table[conversation_id] # Nothing /\ table[conversation_id][1].source = "continue"
    THEN [table |-> [table EXCEPT ![conversation_id] = Nothing], result |-> TRUE]
    ELSE [table |-> table, result |-> TRUE]

\* delete_conversation, db_storage.py lines 399-427: the table after the
\* call and the value returned.  The DELETE takes the row with the id and
\* source 'continue'; its status is "DELETE n", and n > 0 is returned.
DeleteConversation(table, conversation_id, db) ==
    IF db = "no_pool" \/ db = "raises"
    THEN [table |-> table, result |-> FALSE]
    ELSE IF table[conversation_id] # Nothing /\ table[conversation_id][1].source = "continue"
    THEN [table |-> [table EXCEPT ![conversation_id] = Nothing], result |-> TRUE]
    ELSE [table |-> table, result |-> FALSE]

\* get_continue_conversation, db_storage.py lines 158-230.
GetContinueConversation(table, conversation_id, db) ==
    IF db = "no_pool" \/ db = "raises" THEN Nothing
    ELSE IF table[conversation_id] # Nothing /\ table[conversation_id][1].source = "continue"
    THEN table[conversation_id]
    ELSE Nothing

\* The UPDATE of add_message_to_conversation (db_storage.py lines 338-348):
\* the row with the id and source 'continue', if there is one, gets the
\* messages and the timestamp.
UpdateChat(table, conversation_id, messages, now) ==
    IF table[conversation_id] # Nothing /\ table[conversation_id][1].source = "continue"
    THEN [table EXCEPT ![conversation_id] =
            Some([@[1] EXCEPT !.messages = messages, !.updated_at = now])]
    ELSE table

\* add_message_to_conversation, db_storage.py lines 290-359, run without
\* another call in between: the table after the call and the value returned.
AddMessageToConversation(table, conversation_id, role, content, stage_data, now, db) ==
    IF db = "no_pool" \/ db = "raises"
       \/ GetContinueConversation(table, conversation_id, db) = Nothing
    THEN [table |-> table, result |-> FALSE]
    ELSE [table |-> UpdateChat(table, conversation_id,
                               Append(GetContinueConversation(table, conversation_id,
                                                              db)[1].messages,
                                      CreateMessageEntry(role, content, stage_data, now)),
                               now),
          result |-> TRUE]

\* Before the first of the two calls add, get on one id.
AddStart(table) ==
    [calls |-> 0, db |-> <<>>, table |-> table, added |-> FALSE, got |-> Nothing]

\* Before the first of the three calls delete, get, delete on one id.
DeleteStart(table) ==
    [calls |-> 0, db |-> <<>>, table |-> table, before |-> table,
     first |-> FALSE, got |-> Nothing, second |-> FALSE]

\* The rankings of the labels of n Stage 1 results: every order of them.
LabelPermutations ==
    UNION {{p \in [1..n -> {Labels[i] : i \in 1..n}] : \A i, j \in 1..n : p[i] = p[j] => i = j} :
           n \in 0..Len(Labels)}

InitFn ==
    /\ NoServer
    /\ \/ \E text \in RankingTexts :
             fn = [name |-> "parse_ranking_from_text", arg |-> text, ret |-> Nothing]
       \/ \E labels \in LabelPermutations :
             fn = [name |-> "parse_formatted_ranking", arg |-> labels, ret |-> Nothing]
       \/ \E in \in AggregateInputs :
             fn = [name |-> "calculate_aggregate_rankings", arg |-> in, ret |-> Nothing]
       \/ \E m1, m2 \in MessageArrays :
             fn = [name |-> "generate_conversation_id", arg |-> <<m1, m2>>, ret |-> Nothing]
       \/ \E final_content \in FinalContents :
             fn = [name |-> "generate_stream", arg |-> final_content, ret |-> StreamStart]
       \/ \E exit \in ErrorExits :
             fn = [name |-> "error_response", arg |-> exit, ret |-> Nothing]
       \/ \E table \in ChatTables, conversation_id \in ConvIds :
             fn = [name |-> "delete_conversation",
                   arg |-> [table |-> table, conversation_id |-> conversation_id],
                   ret |-> DeleteStart(table)]
       \/ \E table \in ChatTables, conversation_id \in ConvIds,
                role \in {"user", "assistant", "system"}, stage_data \in StageData :
             fn = [name |-> "add_message_to_conversation",
                   arg |-> [table |-> table, conversation_id |-> conversation_id,
                            role |-> role, content |-> "r", stage_data |-> stage_data],
                   ret |-> AddStart(table)]
       \/ \E content \in MdContents :
             fn = [name |-> "format_markdown_response", arg |-> content, ret |-> Nothing]
       \/ \E e1, e2 \in InternalExceptions :
             fn = [name |-> "chat_completions", arg |-> <<e1, e2>>, ret |-> Nothing]
       \/ \E in \in Stage3Inputs :
             fn = [name |-> "stage3_synthesize_final", arg |-> in, ret |-> Nothing]

\* parse_ranking_from_text(ranking_text) is called and returns.
ParseRanking ==
    /\ fn.name = "parse_ranking_from_text"
    /\ fn.ret = Nothing
    /\ fn' = [fn EXCEPT !.ret = Some(ParseRankingFromText(fn.arg))]
    /\ UNCHANGED <<storage, env, file, cache, lockHolder, waiters, pc, op, hist, lastLoad,
                   committed,
                   run, store, chat>>

\* A member answers with the ranking the prompt asks for, and
\* parse_ranking_from_text is called with that answer and returns.
ParseFormatted ==
    /\ fn.name = "parse_formatted_ranking"
    /\ fn.ret = Nothing
    /\ fn' = [fn EXCEPT !.ret = Some(ParseRankingFromText(FormatRanking(fn.arg)))]
    /\ UNCHANGED <<storage, env, file, cache, lockHolder, waiters, pc, op, hist, lastLoad,
                   committed,
                   run, store, chat>>

\* calculate_aggregate_rankings(stage2_results, label_to_model) is called and
\* returns.
CalculateAggregate ==
    /\ fn.name = "calculate_aggregate_rankings"
    /\ fn.ret = Nothing
    /\ fn' = [fn EXCEPT !.ret = Some(CalculateAggregateRankings(fn.arg.stage2,
                                                                 fn.arg.label_to_model))]
    /\ UNCHANGED <<storage, env, file, cache, lockHolder, waiters, pc, op, hist, lastLoad,
                   committed,
                   run, store, chat>>

\* generate_conversation_id is called for each of two message arrays.
GenerateConversationIds ==
    /\ fn.name = "generate_conversation_id"
    /\ fn.ret = Nothing
    /\ fn' = [fn EXCEPT !.ret = Some(<<ConversationId(fn.arg[1]), ConversationId(fn.arg[2])>>)]
    /\ UNCHANGED <<storage, env, file, cache, lockHolder, waiters, pc, op, hist, lastLoad,
                   committed,
                   run, store, chat>>

\* The server takes the next frame of generate_stream and sends it.
GenerateStream ==
    /\ fn.name = "generate_stream"
    /\ fn.ret.at # "closed"
    /\ fn' = [fn EXCEPT !.ret = StreamStep(fn.arg, fn.ret)]
    /\ UNCHANGED <<storage, env, file, cache, lockHolder, waiters, pc, op, hist, lastLoad,
                   committed,
                   run, store, chat>>

\* A request ends with an error: the endpoint returns an error answer, or
\* an exception is raised and answered.
ErrorResponse ==
    /\ fn.name = "error_response"
    /\ fn.ret = Nothing
    /\ fn' = [fn EXCEPT !.ret = IF fn.arg.raised = Nothing THEN fn.arg.returned
                                ELSE Some(EndpointRaises(fn.arg.endpoint, fn.arg.raised[1]))]
    /\ UNCHANGED <<storage, env, file, cache, lockHolder, waiters, pc, op, hist, lastLoad,
                   committed,
                   run, store, chat>>

\* Two chat completions each fail with an exception raised below the
\* endpoint.
ChatCompletionsFail ==
    /\ fn.name = "chat_completions"
    /\ fn.ret = Nothing
    /\ fn' = [fn EXCEPT !.ret = Some(<<EndpointRaises("chat_completions", fn.arg[1]),
                                       EndpointRaises("chat_completions", fn.arg[2])>>)]
    /\ UNCHANGED <<storage, env, file, cache, lockHolder, waiters, pc, op, hist, lastLoad,
                   committed,
                   run, store, chat>>

\* delete_conversation(id), get_continue_conversation(id) and
\* delete_conversation(id) are called one after the other; each call meets
\* the database in one of DbOutcomes.
DeleteGetDelete ==
    /\ fn.name = "delete_conversation"
    /\ fn.ret.calls < 3
    /\ \E db \in DbOutcomes :
          fn' = [fn EXCEPT !.ret =
                   CASE fn.ret.calls = 0 ->
                          [fn.ret EXCEPT
                             !.calls = 1, !.db = Append(@, db),
                             !.table = DeleteConversation(fn.ret.table,
                                                          fn.arg.conversation_id, db).table,
                             !.first = DeleteConversation(fn.ret.table,
                                                          fn.arg.conversation_id, db).result]
                     [] fn.ret.calls = 1 ->
                          [fn.ret EXCEPT
                             !.calls = 2, !.db = Append(@, db),
                             !.got = GetContinueConversation(fn.ret.table,
                                                             fn.arg.conversation_id, db)]
                     [] OTHER ->
                          [fn.ret EXCEPT
                             !.calls = 3, !.db = Append(@, db),
                             !.before = fn.ret.table,
                             !.table = DeleteConversation(fn.ret.table,
                                                          fn.arg.conversation_id, db).table,
                             !.second = DeleteConversation(fn.ret.table,
                                                           fn.arg.conversation_id, db).result]]
    /\ UNCHANGED <<storage, env, file, cache, lockHolder, waiters, pc, op, hist, lastLoad,
                   committed,
                   run, store, chat>>

\* add_message_to_conversation(id, role, content, stage_data) and
\* get_continue_conversation(id) are called one after the other, at time 1;
\* each call meets the database in one of DbOutcomes.
AddThenGet ==
    /\ fn.name = "add_message_to_conversation"
    /\ fn.ret.calls < 2
    /\ \E db \in DbOutcomes :
          fn' = [fn EXCEPT !.ret =
                   IF fn.ret.calls = 0
                   THEN [fn.ret EXCEPT
                           !.calls = 1, !.db = Append(@, db),
                           !.table = AddMessageToConversation(
                                         fn.ret.table, fn.arg.conversation_id, fn.arg.role,
                                         fn.arg.content, fn.arg.stage_data, 1, db).table,
                           !.added = AddMessageToConversation(
                                         fn.ret.table, fn.arg.conversation_id, fn.arg.role,
                                         fn.arg.content, fn.arg.stage_data, 1, db).result]
                   ELSE [fn.ret EXCEPT
                           !.calls = 2, !.db = Append(@, db),
                           !.got = GetContinueConversation(fn.ret.table,
                                                           fn.arg.conversation_id, db)]]
    /\ UNCHANGED <<storage, env, file, cache, lockHolder, waiters, pc, op, hist, lastLoad,
                   committed, run, store, chat>>

\* format_markdown_response(content) is called and returns.
FormatMarkdown ==
    /\ fn.name = "format_markdown_response"
    /\ fn.ret = Nothing
    /\ fn' = [fn EXCEPT !.ret = Some(FormatMarkdownResponse(fn.arg))]
    /\ UNCHANGED <<storage, env, file, cache, lockHolder, waiters, pc, op, hist, lastLoad,
                   committed, run, store, chat>>

\* stage3_synthesize_final(user_query, stage1_results, stage2_results) is
\* called, its chairman call returns, and it returns.
Stage3Synthesize ==
    /\ fn.name = "stage3_synthesize_final"
    /\ fn.ret = Nothing
    /\ fn' = [fn EXCEPT !.ret = Some(Stage3SynthesizeFinal(fn.arg.query, fn.arg.stage1,
                                        fn.arg.stage2, fn.arg.chairman, fn.arg.reply))]
    /\ UNCHANGED <<storage, env, file, cache, lockHolder, waiters, pc, op, hist, lastLoad,
                   committed,
                   run, store, chat>>

NextFn ==
    \/ ParseRanking
    \/ ParseFormatted
    \/ CalculateAggregate
    \/ GenerateConversationIds
    \/ GenerateStream
    \/ ErrorResponse
    \/ DeleteGetDelete
    \/ AddThenGet
    \/ FormatMarkdown
    \/ ChatCompletionsFail
    \/ Stage3Synthesize

FnSpec == InitFn /\ [][NextFn]_vars

\* C20: when the marker occurs in the text, parse_ranking returns the labels
\* of all the numbered matches of the whole suffix after it, in order; when
\* it does not occur, all the labels of the whole text, in order.
C20_ParseRanking ==
    (fn.name = "parse_ranking_from_text" /\ fn.ret # Nothing) =>
        fn.ret[1] = IF \E i \in DOMAIN fn.arg : fn.arg[i] = MARKER
                    THEN NumberedLabels(SubSeq(fn.arg, Len(BeforeMarker(fn.arg)) + 2, Len(fn.arg)))
                    ELSE AllLabels(fn.arg)

\* C21: for every permutation of the labels, the text made of
\* 'FINAL RANKING:' and the numbered list 'k. Response X' is parsed back
\* into the same sequence of labels.
C21_FormatParseRoundTrip ==
    (fn.name = "parse_formatted_ranking" /\ fn.ret # Nothing) => fn.ret[1] = fn.arg

C21_Witness ==
    /\ fn.name = "parse_formatted_ranking"
    /\ fn.arg = <<"Response C", "Response A", "Response B">>
    /\ fn.ret = Some(<<"Response C", "Response A", "Response B">>)

\* The call of calculate_aggregate_rankings has returned.
Aggregated == fn.name = "calculate_aggregate_rankings" /\ fn.ret # Nothing

\* C22: whatever the Stage 2 texts are (a ranking may repeat a label or name
\* a label nobody has), every average_rank of the aggregate lies between 1
\* and the number of Stage 1 results (average_rank is kept in hundredths).
C22_AverageRankRange ==
    Aggregated =>
        \A k \in DOMAIN fn.ret[1] :
            /\ fn.ret[1][k].average_rank >= 100
            /\ fn.ret[1][k].average_rank <= 100 * Len(fn.arg.label_to_model)

\* The places <<ranking, position>> at which the parsed rankings hold label.
Occurrences(stage2, label) ==
    {rp \in (DOMAIN stage2) \X (1..(2 * MaxTextLen)) :
        /\ rp[2] <= Len(ParseRankingFromText(Tokens(stage2[rp[1]].ranking)))
        /\ ParseRankingFromText(Tokens(stage2[rp[1]].ranking))[rp[2]] = label}

\* Place a comes before place b, the rankings being read in turn.
Before(a, b) == a[1] < b[1] \/ (a[1] = b[1] /\ a[2] < b[2])

\* C23: the aggregate holds exactly the members whose label occurs in some
\* parsed ranking (a label that label_to_model does not have adds nothing),
\* each once and with the number of the occurrences of its label as
\* rankings_count; the entries stand in ascending order of average_rank,
\* and of two entries with the same average_rank the one whose label was
\* met first stands first.
C23_AggregateMembers ==
    Aggregated =>
        LET ltm == fn.arg.label_to_model
            agg == fn.ret[1]
            known == {i \in DOMAIN ltm : Occurrences(fn.arg.stage2, Labels[i]) # {}}
        IN /\ Len(agg) = Cardinality(known)
           /\ \A i \in known : \E k \in DOMAIN agg :
                 /\ agg[k].model = ltm[i]
                 /\ agg[k].rankings_count = Cardinality(Occurrences(fn.arg.stage2, Labels[i]))
           /\ \A k \in DOMAIN agg : \E i \in known : agg[k].model = ltm[i]
           /\ \A k, l \in DOMAIN agg : k < l =>
                 /\ agg[k].average_rank <= agg[l].average_rank
                 /\ agg[k].average_rank = agg[l].average_rank =>
                       \E i, j \in known :
                           /\ agg[k].model = ltm[i]
                           /\ agg[l].model = ltm[j]
                           /\ \E a \in Occurrences(fn.arg.stage2, Labels[i]) :
                                 \A b \in Occurrences(fn.arg.stage2, Labels[j]) : Before(a, b)

C23_Witness ==
    /\ Aggregated
    /\ Len(fn.arg.stage2) = 2
    /\ fn.arg.stage2[1].ranking
          = "FINAL RANKING: 1. Response A 2. Response A 3. Response C 4. Response B"
    /\ fn.arg.stage2[2].ranking = "FINAL RANKING: 1. Response B 2. Response A"
    /\ fn.ret[1] = <<[model |-> Q7, average_rank |-> 167, rankings_count |-> 3],
                     [model |-> G, average_rank |-> 250, rankings_count |-> 2],
                     [model |-> Z, average_rank |-> 300, rankings_count |-> 1]>>

\* C24: two message arrays whose first user message has the same content,
\* the empty content included, get the same conversation id, whatever
\* their other messages are.
C24_IdOfFirstUserMessage ==
    (/\ fn.name = "generate_conversation_id"
     /\ fn.ret # Nothing
     /\ FirstUserMessage(fn.arg[1]) # Nothing
     /\ FirstUserMessage(fn.arg[1]) = FirstUserMessage(fn.arg[2])) =>
        fn.ret[1][1] = fn.ret[1][2]

\* The frames that generate_stream has sent so far.
Sent == IF fn.name = "generate_stream" THEN fn.ret.sent ELSE <<>>

\* C26: the frames of a streamed answer come in this order: one chunk whose
\* delta is the role "assistant"; then chunks whose delta is a content of
\* at most 50 characters; then one chunk with an empty delta and the
\* finish_reason "stop"; then the frame 'data: [DONE]', which is the last
\* frame of a stream that has ended, and after which no frame is sent.
C26_StreamFrameOrder ==
    /\ \A i \in DOMAIN Sent :
          /\ Sent[i].role # Nothing <=> i = 1
          /\ Sent[i].role # Nothing =>
                Sent[i] = Chunk(Some("assistant"), Nothing, Nothing)
          /\ Sent[i].content # Nothing =>
                /\ Sent[i] = Chunk(Nothing, Sent[i].content, Nothing)
                /\ Len(Sent[i].content[1]) <= 50
                /\ \A j \in 2..(i - 1) : Sent[j].content # Nothing
          /\ Sent[i].finish_reason # Nothing =>
                /\ Sent[i] = Chunk(Nothing, Nothing, Some("stop"))
                /\ \A j \in 2..(i - 1) : Sent[j].content # Nothing
          /\ Sent[i].data # "chunk" =>
                /\ Sent[i] = DoneFrame
                /\ i > 1
                /\ Sent[i - 1].finish_reason # Nothing
                /\ i = Len(Sent)
          /\ Sent[i].data = "chunk" =>
                Sent[i].role # Nothing \/ Sent[i].content # Nothing
                \/ Sent[i].finish_reason # Nothing
    /\ (fn.name = "generate_stream" /\ fn.ret.at = "closed") =>
          Sent # <<>> /\ Sent[Len(Sent)] = DoneFrame

C26_Witness ==
    /\ fn.name = "generate_stream"
    /\ fn.ret.at = "closed"
    /\ Len(fn.arg) = 101
    /\ Len(Sent) = 6
    /\ Len(Sent[2].content[1]) = 50
    /\ Len(Sent[4].content[1]) = 1
    /\ Sent[5].finish_reason = Some("stop")

\* The contents of the deltas of the frames, one after the other.
RECURSIVE DeltaContents(_)
DeltaContents(frames) ==
    IF frames = <<>> THEN <<>>
    ELSE (IF Head(frames).content # Nothing THEN Head(frames).content[1] ELSE <<>>)
         \o DeltaContents(Tail(frames))

\* C27: the contents of the deltas of a streamed answer, put together in the
\* order of the frames, are the message content that the buffered answer
\* carries for the same content.
C27_StreamEqualsBuffered ==
    (fn.name = "generate_stream" /\ fn.ret.at = "closed") =>
        DeltaContents(Sent) = MessageContent(fn.arg)

C27_Witness ==
    /\ fn.name = "generate_stream"
    /\ fn.ret.at = "closed"
    /\ Len(fn.arg) = 99
    /\ Len(Sent) = 5
    /\ Sent[2].content[1] \o Sent[3].content[1] = fn.arg

\* C28: every error answer of the HTTP surface has one of the statuses 400,
\* 404, 422, 500 and 503 and a body of the shape {error: {message, type,
\* code}}.
C28_ErrorEnvelope ==
    (fn.name = "error_response" /\ fn.ret # Nothing) =>
        /\ fn.ret[1].status_code \in {400, 404, 422, 500, 503}
        /\ fn.ret[1].body.error # Nothing
        /\ fn.ret[1].body.detail = Nothing

\* C29: an exception that nothing else handles during a chat completion is
\* answered 500 with the code "server_error" and a fixed message: two
\* requests that fail with different exceptions get the same body, and the
\* text of neither exception is in it.
C29_SanitizedServerError ==
    (fn.name = "chat_completions" /\ fn.ret # Nothing) =>
        /\ \A k \in 1..2 :
              /\ fn.ret[1][k].status_code = 500
              /\ fn.ret[1][k].body.error # Nothing
              /\ fn.ret[1][k].body.error[1].code = <<"server_error">>
              /\ fn.ret[1][k].body.error[1].message
                    = "An error occurred while processing your request"
              /\ \A e \in InternalExceptions :
                    /\ fn.ret[1][k].body.error[1].message # e.detail
                    /\ fn.ret[1][k].body.error[1].type # e.class
        /\ fn.ret[1][1].body = fn.ret[1][2].body

C29_Witness ==
    /\ fn.name = "chat_completions"
    /\ fn.ret # Nothing
    /\ fn.arg[1].class = "KeyError"
    /\ fn.arg[2].class = "OSError"
    /\ fn.ret[1][1] = fn.ret[1][2]
    /\ fn.ret[1][1].status_code = 500

\* The conversation of the three calls was stored before them.
ExistingConversation ==
    /\ fn.arg.table[fn.arg.conversation_id] # Nothing
    /\ fn.arg.table[fn.arg.conversation_id][1].source = "continue"

\* C30: delete(id) of a stored conversation, when the statement runs,
\* returns true and removes it; after a delete that returned true, get(id)
\* returns null and a second delete(id) returns false and leaves the table
\* as it was.
C30_DeleteThenGetThenDelete ==
    fn.name = "delete_conversation" =>
        /\ (fn.ret.calls >= 1 /\ ExistingConversation /\ fn.ret.db[1] = "ok") =>
              fn.ret.first
        /\ (fn.ret.calls >= 1 /\ fn.ret.first) =>
              /\ ExistingConversation
              /\ fn.ret.table[fn.arg.conversation_id] = Nothing
              /\ \A id \in ConvIds \ {fn.arg.conversation_id} :
                    fn.ret.table[id] = fn.arg.table[id]
        /\ (fn.ret.calls >= 2 /\ fn.ret.first) => fn.ret.got = Nothing
        /\ (fn.ret.calls = 3 /\ fn.ret.first) =>
              /\ ~fn.ret.second
              /\ fn.ret.table = fn.ret.before

C30_Witness ==
    /\ fn.name = "delete_conversation"
    /\ fn.ret.calls = 3
    /\ fn.ret.db = <<"ok", "ok", "ok">>
    /\ ExistingConversation
    /\ \E id \in ConvIds : fn.ret.table[id] # Nothing
    /\ fn.ret.first
    /\ fn.ret.got = Nothing
    /\ ~fn.ret.second

\* The stage data of the call, as a set of items.
GivenStages == IF fn.arg.stage_data = Nothing THEN {} ELSE fn.arg.stage_data[1]

\* What C31 says apart from the artifacts: an append to a stored
\* conversation, when its statements run, returns true; after an append that
\* returned true, get returns the conversation with the messages it had and
\* one more with the role and the content; an append to an id that is not
\* stored returns false and leaves the table as it was.
AppendThenGet ==
    /\ (fn.ret.calls >= 1 /\ ExistingConversation /\ fn.ret.db[1] = "ok") => fn.ret.added
    /\ (fn.ret.calls >= 1 /\ ~ExistingConversation) =>
          /\ ~fn.ret.added
          /\ fn.ret.table = fn.arg.table
    /\ (fn.ret.calls = 2 /\ fn.ret.added /\ fn.ret.db[2] = "ok") =>
          /\ fn.ret.got # Nothing
          /\ SubSeq(fn.ret.got[1].messages, 1, Len(fn.ret.got[1].messages) - 1)
                = fn.arg.table[fn.arg.conversation_id][1].messages
          /\ Last(fn.ret.got[1].messages).role = fn.arg.role
          /\ Last(fn.ret.got[1].messages).content = fn.arg.content

\* C31 as stated: and the last message has the artifacts of the call,
\* whatever the role.
C31_AppendThenGet_AnyRole ==
    fn.name = "add_message_to_conversation" =>
        /\ AppendThenGet
        /\ (fn.ret.calls = 2 /\ fn.ret.added /\ fn.ret.db[2] = "ok") =>
              Last(fn.ret.got[1].messages).stages = GivenStages

\* C31 (amended): append(id, role, content, artifacts) on a stored
\* conversation followed by get(id) returns a conversation whose last message
\* has that role and content, and the artifacts if the role is "assistant",
\* none otherwise; append on a missing id returns false and leaves the store
\* unchanged.
C31_AppendThenGet ==
    fn.name = "add_message_to_conversation" =>
        /\ AppendThenGet
        /\ (fn.ret.calls = 2 /\ fn.ret.added /\ fn.ret.db[2] = "ok") =>
              Last(fn.ret.got[1].messages).stages
                = IF fn.arg.role = "assistant" THEN GivenStages ELSE {}

C31_Witness ==
    /\ fn.name = "add_message_to_conversation"
    /\ fn.ret.calls = 2
    /\ fn.ret.db = <<"ok", "ok">>
    /\ fn.arg.role = "assistant"
    /\ fn.arg.stage_data = Some(AllStages)
    /\ fn.ret.added
    /\ Len(fn.ret.got[1].messages) = 3
    /\ Last(fn.ret.got[1].messages).stages = AllStages

\* The lines of the fenced code blocks of a text, block after block: the
\* lines between a fence that opens a block and the fence that closes it.
RECURSIVE CodeBlocks(_, _)
CodeBlocks(lines, k) ==
    IF k > Len(lines) THEN <<>>
    ELSE (IF lines[k].kind = "fence" /\ FencesBefore(lines, k) % 2 = 1
          THEN <<"end of block">>
          ELSE IF lines[k].kind # "fence" /\ InCodeBlock(lines, k)
          THEN <<lines[k]>>
          ELSE <<>>)
         \o CodeBlocks(lines, k + 1)

\* C40: the lines inside the fenced code blocks of the text returned by the
\* markdown normalizer are the lines inside the fenced code blocks of its
\* input: bullet markers, list numbers and blank lines are unchanged.
C40_CodeBlocksUnchanged ==
    (fn.name = "format_markdown_response" /\ fn.ret # Nothing) =>
        CodeBlocks(fn.ret[1], 1) = CodeBlocks(fn.arg, 1)

\* The call of stage3_synthesize_final has returned.
Synthesized == fn.name = "stage3_synthesize_final" /\ fn.ret # Nothing

\* C13: when every Stage 2 call has failed, Stage 3 still runs, the aggregate
\* rankings are empty and, the chairman having reported no confidence, the
\* confidence is 70.
C13_AllStage2Failed ==
    (/\ Synthesized
     /\ fn.arg.stage2 = <<>>
     /\ fn.arg.reply.state = "replied"
     /\ \A i \in DOMAIN Lines(fn.arg.reply.content) :
           Lines(fn.arg.reply.content)[i].kind # "confidence") =>
        /\ CalculateAggregateRankings(fn.arg.stage2, LabelToModel(fn.arg.stage1)) = <<>>
        /\ fn.ret[1].top_ranked_model = Nothing
        /\ fn.ret[1].confidence = Some(70)

\* C14: every synthesis, whether the chairman reported a confidence, the
\* consensus rule gave it, or the chairman's call failed, has an integer
\* confidence from 0 to 100.
C14_ConfidenceRange ==
    Synthesized =>
        /\ fn.ret[1].confidence # Nothing
        /\ fn.ret[1].confidence[1] \in 0..100

\* C15: when the chairman's reply has no confidence line that parses, the
\* confidence is the consensus value: with two or more aggregate entries
\* 70 + 10 x (second average - first average) kept within 60..90, with one
\* entry 75, with none 70.
C15_ConsensusConfidence ==
    (/\ Synthesized
     /\ fn.arg.reply.state = "replied"
     /\ \A i \in DOMAIN Lines(fn.arg.reply.content) :
           Lines(fn.arg.reply.content)[i].kind = "confidence" =>
              Lines(fn.arg.reply.content)[i].value = Nothing) =>
        LET agg == CalculateAggregateRankings(fn.arg.stage2, LabelToModel(fn.arg.stage1))
            tenths == (agg[2].average_rank - agg[1].average_rank) \div 10
        IN fn.ret[1].confidence =
              Some(IF Len(agg) >= 2
                   THEN (IF 70 + tenths < 60 THEN 60
                         ELSE IF 70 + tenths > 90 THEN 90 ELSE 70 + tenths)
                   ELSE IF Len(agg) = 1 THEN 75 ELSE 70)

\* C16 as the specification states it: primary_source is the value of the
\* first '# Primary source:' line when there is one; else the top model of
\* the aggregate when the aggregate is not empty; else the chairman's id.
C16_PrimarySourceAsStated ==
    (Synthesized /\ fn.arg.reply.state = "replied") =>
        LET ls == Lines(fn.arg.reply.content)
            at == {i \in DOMAIN ls : ls[i].kind = "primary"}
            agg == CalculateAggregateRankings(fn.arg.stage2, LabelToModel(fn.arg.stage1))
        IN fn.ret[1].primary_source =
              Some(IF at # {} THEN ls[CHOOSE i \in at : \A j \in at : i <= j].value
                   ELSE IF agg # <<>> THEN agg[1].model
                   ELSE fn.arg.chairman)

\* C16: in a synthesis made from a reply of the chairman, primary_source is
\* the value of the first '# Primary source:' line when there is one and the
\* value, stripped, is not empty; else the top model of the aggregate when
\* the aggregate is not empty; else the chairman's id.
C16_PrimarySource ==
    (Synthesized /\ fn.arg.reply.state = "replied") =>
        LET ls == Lines(fn.arg.reply.content)
            at == {i \in DOMAIN ls : ls[i].kind = "primary"}
            first == ls[CHOOSE i \in at : \A j \in at : i <= j].value
            agg == CalculateAggregateRankings(fn.arg.stage2, LabelToModel(fn.arg.stage1))
        IN fn.ret[1].primary_source =
              Some(IF at # {} /\ first # <<>> THEN first
                   ELSE IF agg # <<>> THEN agg[1].model
                   ELSE fn.arg.chairman)

C16_Witness ==
    /\ Synthesized
    /\ fn.arg.reply.content = "answer\n# Primary source:\n# Confidence: high"
    /\ Len(fn.arg.stage2) = 2
    /\ fn.ret[1].primary_source = Some(G)
    /\ fn.ret[1].top_ranked_model = Some(G)

(***************************************************************************)
(* db_storage.py under concurrent calls                                    *)
(*                                                                         *)
(* The handlers are coroutines of one event loop: a call runs from one     *)
(* await of the database to the next without interruption, and the         *)
(* statements of different calls run on the connections of the pool in any *)
(* order.  storage.calls holds the calls, each with the place where it is  *)
(* suspended.                                                              *)
(***************************************************************************)

\* The ids that chat_completions creates conversations under.
StoreIds == {id \in ConvIds : id.by = "first"}

\* The messages that the calls append.
Appends == {<<"user", "r", Nothing>>, <<"assistant", "a", Some(AllStages)>>}

\* A call before its first await.
NewCall(f, conversation_id) ==
    [fn |-> f, conversation_id |-> conversation_id, pc |-> "get", now |-> 0,
     lookup |-> "none", entry |-> <<>>, messages |-> <<>>, title |-> "", ret |-> "none"]

\* datetime.utcnow() is read: the clock is returned, and time passes.
ClockRead == [storage EXCEPT !.clock = @ + 1]

\* A request calls get_continue_conversation from chat_completions (main.py
\* line 541), add_message_to_conversation, or update_conversation_title,
\* which reads the clock before its UPDATE (db_storage.py lines 377-381).
StartCall ==
    /\ Len(storage.calls) < MaxCalls
    /\ \E conversation_id \in StoreIds :
          \/ storage' = [storage EXCEPT
                           !.calls = Append(@, NewCall("chat_completions", conversation_id))]
          \/ \E a \in Appends :
                storage' = [storage EXCEPT
                              !.calls = Append(@, [NewCall("add_message_to_conversation",
                                                           conversation_id)
                                                     EXCEPT !.entry = a])]
          \/ storage' = [ClockRead EXCEPT
                           !.calls = Append(@, [NewCall("update_conversation_title",
                                                        conversation_id)
                                                  EXCEPT !.pc = "update",
                                                         !.now = storage.clock,
                                                         !.title = "t"])]
    /\ UNCHANGED <<env, file, cache, lockHolder, waiters, pc, op, hist, lastLoad, committed,
                   run, store, chat, fn>>

\* The SELECT of get_continue_conversation has answered call i.
\* chat_completions (main.py lines 543-563): a conversation that is found is
\* used; else create_continue_conversation reads the clock (db_storage.py
\* line 95) and calls _column_exists, which answers from _column_cache
\* (lines 28-30) or queries the schema.  add_message_to_conversation
\* (db_storage.py lines 317-335): False when nothing is found; else the new
\* entry is appended to the messages read, the clock is read and the UPDATE
\* is sent.
GetAnswered(i) ==
    /\ i \in DOMAIN storage.calls
    /\ storage.calls[i].pc = "get"
    /\ storage' =
         IF GetContinueConversation(storage.table, storage.calls[i].conversation_id, "ok")
              = Nothing
         THEN IF storage.calls[i].fn = "chat_completions"
              THEN [ClockRead EXCEPT
                      !.calls[i].now = storage.clock,
                      !.calls[i].lookup = "missing",
                      !.calls[i].pc = IF storage.column_cache = Nothing
                                      THEN "column_query" ELSE "insert"]
              ELSE [storage EXCEPT !.calls[i].pc = "done", !.calls[i].ret = "false"]
         ELSE IF storage.calls[i].fn = "chat_completions"
              THEN [storage EXCEPT !.calls[i].pc = "done", !.calls[i].ret = "found"]
              ELSE [ClockRead EXCEPT
                      !.calls[i].now = storage.clock,
                      !.calls[i].pc = "update",
                      !.calls[i].messages =
                          Append(storage.table[storage.calls[i].conversation_id][1].messages,
                                 CreateMessageEntry(storage.calls[i].entry[1],
                                                    storage.calls[i].entry[2],
                                                    storage.calls[i].entry[3],
                                                    storage.clock))]
    /\ UNCHANGED <<env, file, cache, lockHolder, waiters, pc, op, hist, lastLoad, committed,
                   run, store, chat, fn>>

\* The query of _column_exists has answered call i (db_storage.py lines
\* 36-54): the count is recorded, or False when the query raised.
ColumnQueried(i) ==
    /\ i \in DOMAIN storage.calls
    /\ storage.calls[i].pc = "column_query"
    /\ \E db \in {"ok", "raises"} :
          storage' = [storage EXCEPT
                        !.column_cache = Some(IF db = "ok" THEN storage.archived ELSE FALSE),
                        !.calls[i].pc = "insert"]
    /\ UNCHANGED <<env, file, cache, lockHolder, waiters, pc, op, hist, lastLoad, committed,
                   run, store, chat, fn>>

\* The INSERT of create_continue_conversation has run for call i
\* (db_storage.py lines 104-155): the row is stored with the first message,
\* or, when the id is stored already, the statement fails, the exception is
\* raised again and chat_completions answers 500 (main.py lines 895-909).
Inserted(i) ==
    /\ i \in DOMAIN storage.calls
    /\ storage.calls[i].pc = "insert"
    /\ storage' =
         IF storage.table[storage.calls[i].conversation_id] # Nothing
         THEN [storage EXCEPT !.calls[i].pc = "done", !.calls[i].ret = "500"]
         ELSE [storage EXCEPT
                 !.calls[i].pc = "done",
                 !.calls[i].ret = "created",
                 !.table[storage.calls[i].conversation_id] =
                     Some([source |-> "continue",
                           title |-> storage.calls[i].conversation_id.name[1].content,
                           messages |->
                             <<CreateMessageEntry(
                                 "user", storage.calls[i].conversation_id.name[1].content,
                                 Nothing, storage.calls[i].now)>>,
                           updated_at |-> storage.calls[i].now])]
    /\ UNCHANGED <<env, file, cache, lockHolder, waiters, pc, op, hist, lastLoad, committed,
                   run, store, chat, fn>>

\* The UPDATE of call i has run: add_message_to_conversation writes the
\* messages it built and its timestamp and returns True (db_storage.py lines
\* 337-352); update_conversation_title writes the title and its timestamp
\* and returns whether one row was updated (lines 383-395).
Updated(i) ==
    /\ i \in DOMAIN storage.calls
    /\ storage.calls[i].pc = "update"
    /\ storage' =
         IF storage.calls[i].fn = "add_message_to_conversation"
         THEN [storage EXCEPT
                 !.calls[i].pc = "done",
                 !.calls[i].ret = "true",
                 !.table = UpdateChat(storage.table, storage.calls[i].conversation_id,
                                      storage.calls[i].messages, storage.calls[i].now)]
         ELSE IF GetContinueConversation(storage.table, storage.calls[i].conversation_id,
                                         "ok") = Nothing
         THEN [storage EXCEPT !.calls[i].pc = "done", !.calls[i].ret = "false"]
         ELSE [storage EXCEPT
                 !.calls[i].pc = "done",
                 !.calls[i].ret = "true",
                 !.table[storage.calls[i].conversation_id] =
                     Some([@[1] EXCEPT !.title = storage.calls[i].title,
                                       !.updated_at = storage.calls[i].now])]
    /\ UNCHANGED <<env, file, cache, lockHolder, waiters, pc, op, hist, lastLoad, committed,
                   run, store, chat, fn>>

\* The process starts with an empty table; the archived column exists or
\* not.
InitStore ==
    /\ fn = NoFn
    /\ \E archived \in BOOLEAN : storage = [NoStorage EXCEPT !.archived = archived]
    /\ env \in ChatEnvs
    /\ file = [kind |-> "json", cfg |-> env]
    /\ cache = Nothing
    /\ lockHolder = 0
    /\ waiters = <<>>
    /\ pc = [t \in Tasks |-> "idle"]
    /\ op = [t \in Tasks |-> NoOp]
    /\ hist = [t \in Tasks |-> <<>>]
    /\ lastLoad = NoLoad
    /\ committed = {}
    /\ run = [t \in Tasks |-> NoRun]
    /\ store \in [ConvIds -> {Nothing}]
    /\ chat = [t \in Tasks |-> NoChat]

NextStore ==
    \/ StartCall
    \/ \E i \in 1..MaxCalls :
          \/ GetAnswered(i)
          \/ ColumnQueried(i)
          \/ Inserted(i)
          \/ Updated(i)

StoreSpec == InitStore /\ [][NextStore]_vars

\* The stored messages, without their timestamps.
StoredEntries(conversation_id) ==
    IF storage.table[conversation_id] = Nothing THEN {}
    ELSE {CreateMessageEntry(m.role, m.content, Some(m.stages), 0) :
            m \in Range(storage.table[conversation_id][1].messages)}

\* C32: an append that has returned true is never lost: its message is in
\* the conversation, also when another append on the same id ran at the
\* same time.
C32_NoLostAppend ==
    \A i \in DOMAIN storage.calls :
        (/\ storage.calls[i].fn = "add_message_to_conversation"
         /\ storage.calls[i].ret = "true") =>
            CreateMessageEntry(storage.calls[i].entry[1], storage.calls[i].entry[2],
                               storage.calls[i].entry[3], 0)
              \in StoredEntries(storage.calls[i].conversation_id)

\* C33: the updated_at of a stored conversation never decreases.
C33_UpdatedAtMonotonic ==
    [][\A id \in StoreIds :
          (storage.table[id] # Nothing /\ storage'.table[id] # Nothing) =>
              storage'.table[id][1].updated_at >= storage.table[id][1].updated_at]_vars

\* C34: once _column_cache holds True for the column, it holds True for
\* ever, and so every later _column_exists returns True.
C34_ColumnCacheMonotonic ==
    [][storage.column_cache = Some(TRUE) => storage'.column_cache = Some(TRUE)]_vars

\* C37: when two chat completions with the same first user message have
\* both found no conversation, both go on to the council run (neither is
\* answered 500) and one row is stored under the id.
C37_IdempotentCreate ==
    \A i, j \in DOMAIN storage.calls :
        (/\ i # j
         /\ storage.calls[i].fn = "chat_completions"
         /\ storage.calls[j].fn = "chat_completions"
         /\ storage.calls[i].conversation_id = storage.calls[j].conversation_id
         /\ storage.calls[i].lookup = "missing"
         /\ storage.calls[j].lookup = "missing"
         /\ storage.calls[i].pc = "done"
         /\ storage.calls[j].pc = "done") =>
            /\ storage.calls[i].ret = "created"
            /\ storage.calls[j].ret = "created"
            /\ storage.table[storage.calls[i].conversation_id] # Nothing

====
